---- MODULE Spec2Model ----
(***************************************************************************)
(* A model of the highlight/search service: the matching engine            *)
(* (HighlightExtractor.match_clips), the six-stage highlight pipeline       *)
(* (app.process_highlight), the upload watcher (app.process_async_result    *)
(* over AsyncNovaEmbedding.wait_for_completion) and the dimension-sharded   *)
(* vector store (DimensionAwareVectorSearch).                               *)
(*                                                                         *)
(* Each subsystem has its own specification (SpecMatch, SpecPipeline,       *)
(* SpecUpload, SpecStore); the variables of the other subsystems stay at    *)
(* their initial value there.                                               *)
(***************************************************************************)
EXTENDS Integers, Sequences, FiniteSets, TLC

(***************************************************************************)
(* Vectors.  A vector of floats is kept as its length, its leading          *)
(* components (integers) and a flag saying that one further component is    *)
(* NaN; every component not listed is 0.  null marks Python's None.         *)
(***************************************************************************)
V(n, h) == [null |-> FALSE, len |-> n, head |-> h, nan |-> FALSE]
NaNVec(n) == [null |-> FALSE, len |-> n, head |-> <<>>, nan |-> TRUE]
NullVec == [null |-> TRUE, len |-> 0, head |-> <<>>, nan |-> FALSE]

RECURSIVE SumSq(_)
SumSq(h) == IF h = <<>> THEN 0 ELSE Head(h) * Head(h) + SumSq(Tail(h))

RECURSIVE DotHead(_, _)
DotHead(a, b) ==
    IF a = <<>> \/ b = <<>> THEN 0
    ELSE Head(a) * Head(b) + DotHead(Tail(a), Tail(b))

\* any(x != 0 for x in vector): NaN != 0 is True in Python
AnyNonZero(v) == v.nan \/ \E i \in 1..Len(v.head) : v.head[i] # 0

(***************************************************************************)
(* Similarities.  A cosine is kept exactly as num / sqrt(den2), or as NaN.  *)
(***************************************************************************)
Sim(n, d2) == [nan |-> FALSE, num |-> n, den2 |-> d2]
SimNaN == [nan |-> TRUE, num |-> 0, den2 |-> 1]
SimZero == Sim(0, 1)

\* x > y on floats: every comparison with NaN is False
SimGT(x, y) ==
    /\ ~x.nan
    /\ ~y.nan
    /\ LET a == x.num
           b == y.num
           l == a * a * y.den2
           r == b * b * x.den2
       IN  IF a >= 0 /\ b >= 0 THEN l > r
           ELSE IF a >= 0 THEN TRUE
           ELSE IF b >= 0 THEN FALSE
           ELSE l < r

Min(a, b) == IF a < b THEN a ELSE b
Abs(x) == IF x < 0 THEN 0 - x ELSE x
Take(s, k) == SubSeq(s, 1, Min(k, Len(s)))
RemoveAt(s, i) == SubSeq(s, 1, i - 1) \o SubSeq(s, i + 1, Len(s))

(***************************************************************************)
(* Results of calls: a call either returns a value or raises an error text. *)
(***************************************************************************)
Ret(v) == [raised |-> FALSE, error |-> "", value |-> v]
Raise(e, v) == [raised |-> TRUE, error |-> e, value |-> v]

(***************************************************************************)
(* MatchingEngine: HighlightExtractor.match_clips                           *)
(***************************************************************************)
Threshold == Sim(1, 400)      \* threshold=0.05, as 1/sqrt(400)
TopKPerPoint == 3
OverlapWindow == 3
NoPath == <<>>
ClipPath(index) == <<"clip", index>>

\* a candidate segment, as extract_clips_with_embeddings records it
Candidate(i, ts, e) == [index |-> i, timestamp |-> ts, embedding |-> e, path |-> NoPath]

\* HighlightExtractor.cosine_similarity: np.dot(a, b) / (norm(a) * norm(b)), no guard:
\* a zero norm gives 0/0 = NaN
HxCosine(a, b) ==
    IF a.nan \/ b.nan THEN SimNaN
    ELSE IF SumSq(a.head) * SumSq(b.head) = 0 THEN SimNaN
    ELSE Sim(DotHead(a.head, b.head), SumSq(a.head) * SumSq(b.head))

PointPrefixes == {"A.", "B.", "C.", "D.", "E.", "F.", "G.", "H.", "I.", "J."}

\* a line of the analysis text, stripped: its leading label, and what the
\* embedding service answers for the stripped line
IsPoint(line) == line.label \in PointPrefixes
ParsePoints(analysis) == SelectSeq(analysis, IsPoint)

HasEmbedding(c) == ~c.embedding.null
ValidClips(clips) == SelectSeq(clips, HasEmbedding)

\* clip.copy() with 'similarity' and 'point' added
ClipCopy(c, sim, point) ==
    [index |-> c.index, timestamp |-> c.timestamp, embedding |-> c.embedding,
     path |-> c.path, similarity |-> sim, point |-> point.text]

AboveThreshold(m) == SimGT(m.similarity, Threshold)

\* the (similarity, clip_copy) pairs of one point, in candidate order
ClipSimilarities(point, valid) ==
    SelectSeq([i \in 1..Len(valid) |->
                  ClipCopy(valid[i], HxCosine(point.emb, valid[i].embedding), point)],
              AboveThreshold)

\* list.sort(key=similarity, reverse=True): stable, equal keys keep their order
RECURSIVE InsertBySimDesc(_, _)
InsertBySimDesc(m, s) ==
    IF s = <<>> THEN <<m>>
    ELSE IF SimGT(m.similarity, Head(s).similarity) THEN <<m>> \o s
    ELSE <<Head(s)>> \o InsertBySimDesc(m, Tail(s))

RECURSIVE SortBySimDesc(_)
SortBySimDesc(s) ==
    IF s = <<>> THEN <<>>
    ELSE InsertBySimDesc(s[Len(s)], SortBySimDesc(SubSeq(s, 1, Len(s) - 1)))

\* mutant: the first K candidates above the threshold are kept, unsorted
TopClips_FirstK(point, valid) == Take(ClipSimilarities(point, valid), TopKPerPoint)

\* mutant: the per-point selection is not cut to the top K
TopClips_NoCut(point, valid) == SortBySimDesc(ClipSimilarities(point, valid))

TopClips(point, valid) == Take(SortBySimDesc(ClipSimilarities(point, valid)), TopKPerPoint)

\* mutant: the selections of later points are put before those of earlier points
RECURSIVE SelectedClips_LaterFirst(_, _)
SelectedClips_LaterFirst(points, valid) ==
    IF points = <<>> THEN <<>>
    ELSE SelectedClips_LaterFirst(Tail(points), valid) \o TopClips(Head(points), valid)

RECURSIVE SelectedClips(_, _)
SelectedClips(points, valid) ==
    IF points = <<>> THEN <<>>
    ELSE TopClips(Head(points), valid) \o SelectedClips(Tail(points), valid)

\* list.sort(key=timestamp): stable, ascending
RECURSIVE InsertByTimestamp(_, _)
InsertByTimestamp(m, s) ==
    IF s = <<>> THEN <<m>>
    ELSE IF m.timestamp < Head(s).timestamp THEN <<m>> \o s
    ELSE <<Head(s)>> \o InsertByTimestamp(m, Tail(s))

RECURSIVE SortByTimestamp(_)
SortByTimestamp(s) ==
    IF s = <<>> THEN <<>>
    ELSE InsertByTimestamp(s[Len(s)], SortByTimestamp(SubSeq(s, 1, Len(s) - 1)))

\* step one of the dedup: a segment index already seen is skipped
RECURSIVE UniqueClips(_, _)
UniqueClips(s, seen) ==
    IF s = <<>> THEN <<>>
    ELSE IF Head(s).index \in seen THEN UniqueClips(Tail(s), seen)
    ELSE <<Head(s)>> \o UniqueClips(Tail(s), seen \cup {Head(s).index})

Overlaps(a, b) == Abs(a.timestamp - b.timestamp) < OverlapWindow

\* mutant: the overlap test is skipped, every scanned clip is accepted
ConsiderClip_NoOverlapTest(filtered, clip) == Append(filtered, clip)

\* mutant: on equal similarity the scanned clip replaces the selected one
ConsiderClip_TieReplaces(filtered, clip) ==
    LET hits == {i \in 1..Len(filtered) : Overlaps(clip, filtered[i])}
    IN  IF hits = {} THEN Append(filtered, clip)
        ELSE LET i == CHOOSE k \in hits : \A j \in hits : k <= j
             IN  IF ~SimGT(filtered[i].similarity, clip.similarity)
                 THEN Append(RemoveAt(filtered, i), clip)
                 ELSE filtered

\* one turn of the overlap loop: the first already selected clip within the
\* window decides; the scanned clip replaces it when strictly more similar
ConsiderClip(filtered, clip) ==
    LET hits == {i \in 1..Len(filtered) : Overlaps(clip, filtered[i])}
    IN  IF hits = {} THEN Append(filtered, clip)
        ELSE LET i == CHOOSE k \in hits : \A j \in hits : k <= j
             IN  IF SimGT(clip.similarity, filtered[i].similarity)
                 THEN Append(RemoveAt(filtered, i), clip)
                 ELSE filtered

RECURSIVE FilterOverlap(_, _)
FilterOverlap(unique, filtered) ==
    IF unique = <<>> THEN filtered
    ELSE FilterOverlap(Tail(unique), ConsiderClip(filtered, Head(unique)))

FilteredClips(points, clips) ==
    SortByTimestamp(
        FilterOverlap(
            UniqueClips(SortByTimestamp(SelectedClips(points, ValidClips(clips))), {}),
            <<>>))

\* the clips of the final selection for which the extraction loop runs ffmpeg
Extractions(filtered) == SelectSeq(filtered, LAMBDA m : m.path = NoPath)

\* mutant: the extraction loop leaves the clip without a file
Materialize_Skips(m) == m

\* the extraction loop: a selected clip without a file gets one
Materialize(m) ==
    IF m.path = NoPath THEN [m EXCEPT !.path = ClipPath(m.index)] ELSE m

\* np.dot raises on operands of unequal length
DotRaises(point, valid) ==
    \E i \in 1..Len(valid) : valid[i].embedding.len # point.emb.len

\* mutant: an analysis without points is an error of match_clips
MatchClips_RaisesOnNoPoints(analysis, clips, embed_fail_at, ffmpeg_ok) ==
    LET points == ParsePoints(analysis)
        filtered == FilteredClips(points, clips)
    IN  IF points = <<>>
        THEN Raise("no points extracted", <<>>)
        ELSE IF embed_fail_at \in 1..Len(points)
        THEN Raise("Error getting embedding", <<>>)
        ELSE IF \E i \in 1..Len(points) : DotRaises(points[i], ValidClips(clips))
        THEN Raise("shapes not aligned", <<>>)
        ELSE IF filtered # <<>> /\ ~ffmpeg_ok
        THEN Raise("ffmpeg returned non-zero exit status", <<>>)
        ELSE Ret([i \in 1..Len(filtered) |-> Materialize(filtered[i])])

\* embed_fail_at: the place of the point whose get_embedding call raises (0: none);
\* ffmpeg_ok: whether the clip extractions exit with status 0
MatchClips(analysis, clips, embed_fail_at, ffmpeg_ok) ==
    LET points == ParsePoints(analysis)
        valid == ValidClips(clips)
        filtered == FilteredClips(points, clips)
    IN  IF embed_fail_at \in 1..Len(points)
        THEN Raise("Error getting embedding", <<>>)
        ELSE IF \E i \in 1..Len(points) : DotRaises(points[i], valid)
        THEN Raise("shapes not aligned", <<>>)
        ELSE IF filtered # <<>> /\ ~ffmpeg_ok
        THEN Raise("ffmpeg returned non-zero exit status", <<>>)
        ELSE Ret([i \in 1..Len(filtered) |-> Materialize(filtered[i])])

(***************************************************************************)
(* PipelineOrchestrator: the stages called by app.process_highlight         *)
(***************************************************************************)
Absent == <<>>            \* a key the dict does not hold
Some(v) == <<v>>

DefaultCriteria == "## default criteria: action, emotion, turning point, visuals, story"
GeneratedCriteria == "## criteria rewritten for the theme"

\* mutant: the failure of the generative call is not absorbed
GenerateCriteria_Propagates(bedrock_ok) ==
    IF bedrock_ok THEN Ret(GeneratedCriteria) ELSE Raise("bedrock invoke_model failed", "")

\* mutant: the fallback returns nothing
GenerateCriteria_EmptyFallback(bedrock_ok) ==
    IF bedrock_ok THEN Ret(GeneratedCriteria) ELSE Ret("")

\* generate_criteria: any exception of the model call is caught and the built-in
\* default is returned
GenerateCriteria(bedrock_ok) ==
    IF bedrock_ok THEN Ret(GeneratedCriteria) ELSE Ret(DefaultCriteria)

SmallSizeMB == 25
MaxSizeMB == 100

\* mutant: a failing probe or transcode is not caught
CompressVideo_Propagates(input_path, output_path, env) ==
    IF ~env.probe_ok THEN Raise("ffprobe returned non-zero exit status", "")
    ELSE IF env.size_mb <= SmallSizeMB THEN Ret(input_path)
    ELSE IF env.size_mb <= MaxSizeMB THEN Ret(input_path)
    ELSE IF env.duration = 0 \/ ~env.ffmpeg_ok
    THEN Raise("ffmpeg returned non-zero exit status", "")
    ELSE IF env.output_exists THEN Ret(output_path)
    ELSE Ret(input_path)

\* compress_video: every failure is caught and the input path returned
CompressVideo(input_path, output_path, env) ==
    IF ~env.probe_ok THEN Ret(input_path)
    ELSE IF env.size_mb <= SmallSizeMB THEN Ret(input_path)
    ELSE IF env.size_mb <= MaxSizeMB THEN Ret(input_path)
    ELSE IF env.duration = 0 \/ ~env.ffmpeg_ok THEN Ret(input_path)
    ELSE IF env.output_exists THEN Ret(output_path)
    ELSE Ret(input_path)

\* analyze_video: the model's text, or the exception of the call re-raised
AnalyzeVideo(env) ==
    IF env.ok THEN Ret(env.analysis) ELSE Raise("Error analyzing video", <<>>)

SegmentDuration == 3

\* extract_clips_with_embeddings: one candidate per segment the service returned
ExtractClipsWithEmbeddings(segment_duration, env) ==
    IF ~env.ok THEN Raise("segmented embedding failed", <<>>)
    ELSE Ret([i \in 1..Len(env.segments_data) |->
                 Candidate(i - 1, (i - 1) * segment_duration, env.segments_data[i])])

\* the entry of clips_info built from a selected clip
ClipInfo(m) ==
    [url |-> m.path, timestamp |-> m.timestamp, similarity |-> m.similarity,
     description |-> m.point]
ClipsInfo(selected) == [i \in 1..Len(selected) |-> ClipInfo(selected[i])]

\* mutant: an empty selection is stitched like any other
CreateHighlightVideo_AcceptsEmpty(selected_clips, output_path, tool_ok) ==
    IF ~tool_ok THEN Raise("video concatenation failed", "")
    ELSE Ret(output_path)

\* create_highlight_video: nothing to stitch, or the copy / ffmpeg run fails
CreateHighlightVideo(selected_clips, output_path, tool_ok) ==
    IF Len(selected_clips) = 0 THEN Raise("no selected clips to concatenate", "")
    ELSE IF ~tool_ok THEN Raise("video concatenation failed", "")
    ELSE Ret(output_path)

(***************************************************************************)
(* State                                                                    *)
(***************************************************************************)
VARIABLES
    m_pc,         \* match_clips: "call" before the call, "returned" or "raised" after
    m_analysis,   \* its analysis argument: the lines of the text
    m_clips,      \* its clips argument
    m_result,     \* what the call returned or raised
    m_env,        \* what the services did during the call (history)
    highlight_jobs,  \* app.highlight_jobs: job id -> job_status, for the submitted jobs
    h_pc,         \* where each job's process_highlight thread stands
    h_local,      \* the thread's local variables
    h_hist,       \* what happened to the job so far (history, not program state)
    h_resp        \* the last response to a status or download request for the job

mvars == <<m_pc, m_analysis, m_clips, m_result, m_env>>
hvars == <<highlight_jobs, h_pc, h_local, h_hist, h_resp>>


(***************************************************************************)
(* Inputs of the matching engine                                            *)
(***************************************************************************)
MaxLines == 2
MaxClips == 3
EmbeddingDimension == 1024

SeqsUpTo(S, n) == UNION {[1..k -> S] : k \in 0..n}

TextEmbs == {V(EmbeddingDimension, <<1, 0>>), V(EmbeddingDimension, <<0, 1>>)}
ClipEmbs == {V(EmbeddingDimension, <<3, 4>>), V(EmbeddingDimension, <<0, 1>>)}
Timestamps == {0, 2, 3}
\* a segment is embedded, or (at offset 0) has no embedding
Segments == (Timestamps \X ClipEmbs) \cup {<<0, NullVec>>}

Lines ==
    {[label |-> "A.", text |-> "A. first", emb |-> V(EmbeddingDimension, <<1, 0>>)],
     [label |-> "B.", text |-> "B. second", emb |-> V(EmbeddingDimension, <<0, 1>>)],
     [label |-> "K.", text |-> "K. summary", emb |-> V(EmbeddingDimension, <<1, 0>>)]}

Analyses == SeqsUpTo(Lines, MaxLines)

\* candidate lists as extract_clips_with_embeddings numbers them: index i at place i+1
CandidateLists ==
    {[i \in 1..Len(f) |-> Candidate(i - 1, f[i][1], f[i][2])] :
        f \in SeqsUpTo(Segments, MaxClips)}

\* the temporal dedup scenario: offsets 0, 2, 5, 9 matched by one point with
\* cosines 0.9, 0.95, 0.3, 0.4
ScenarioPoint ==
    [label |-> "A.", text |-> "A. scenario",
     emb |-> V(EmbeddingDimension, <<1, 0, 0, 0, 0>>)]
ScenarioAnalysis == <<ScenarioPoint>>
ScenarioClips ==
    <<Candidate(0, 0, V(EmbeddingDimension, <<9, 3, 3, 1, 0>>)),
      Candidate(1, 2, V(EmbeddingDimension, <<19, 5, 3, 2, 1>>)),
      Candidate(2, 5, V(EmbeddingDimension, <<3, 9, 3, 1, 0>>)),
      Candidate(3, 9, V(EmbeddingDimension, <<2, 4, 2, 1, 0>>))>>

\* a chain of adjacent segments: offsets 0, 2, 4 matched by the scenario point with
\* cosines 0.9, 0.5, 0.3
ChainClips ==
    <<Candidate(0, 0, V(EmbeddingDimension, <<9, 3, 3, 1, 0>>)),
      Candidate(1, 2, V(EmbeddingDimension, <<1, 1, 1, 1, 0>>)),
      Candidate(2, 4, V(EmbeddingDimension, <<3, 9, 3, 1, 0>>))>>

NoResult == Ret(<<>>)
NoEnv == <<0, TRUE>>

\* what the services do during one call of match_clips: all succeed, the clip
\* extraction fails, or the embedding call of the k-th point fails
MatchEnvs(analysis) ==
    {<<0, TRUE>>, <<0, FALSE>>} \cup {<<k, TRUE>> : k \in 1..Len(ParsePoints(analysis))}

MatchInputs ==
    /\ m_pc = "call"
    /\ \/ m_analysis \in Analyses /\ m_clips \in CandidateLists
       \/ m_analysis = ScenarioAnalysis /\ m_clips \in {ScenarioClips, ChainClips}
    /\ m_result = NoResult
    /\ m_env = NoEnv

MatchIdle ==
    /\ m_pc = "off"
    /\ m_analysis = <<>>
    /\ m_clips = <<>>
    /\ m_result = NoResult
    /\ m_env = NoEnv

\* one call of match_clips: it returns the selection, or raises when a point's
\* embedding call or a clip extraction fails
MatchCall ==
    /\ m_pc = "call"
    /\ \E env \in MatchEnvs(m_analysis) :
         LET r == MatchClips(m_analysis, m_clips, env[1], env[2])
         IN  /\ m_result' = r
             /\ m_env' = env
             /\ m_pc' = IF r.raised THEN "raised" ELSE "returned"
    /\ UNCHANGED <<m_analysis, m_clips>>

(***************************************************************************)
(* The highlight pipeline: app.extract_highlight and its worker thread      *)
(***************************************************************************)
JobIds == {"job1"}
Stages == 1..6

VideoPath == "static/highlights/job/video.mp4"
CompressedPath == "static/highlights/job/compressed.mp4"
HighlightVideoPath == "static/highlights/job/highlight.mp4"

\* what ffprobe and ffmpeg do during compress_video
CompressEnvs ==
    {[probe_ok |-> FALSE, size_mb |-> 0, duration |-> 0, ffmpeg_ok |-> FALSE, output_exists |-> FALSE],
     [probe_ok |-> TRUE, size_mb |-> 25, duration |-> 30, ffmpeg_ok |-> TRUE, output_exists |-> TRUE],
     [probe_ok |-> TRUE, size_mb |-> 100, duration |-> 30, ffmpeg_ok |-> TRUE, output_exists |-> TRUE],
     [probe_ok |-> TRUE, size_mb |-> 101, duration |-> 30, ffmpeg_ok |-> TRUE, output_exists |-> TRUE],
     [probe_ok |-> TRUE, size_mb |-> 101, duration |-> 30, ffmpeg_ok |-> TRUE, output_exists |-> FALSE],
     [probe_ok |-> TRUE, size_mb |-> 101, duration |-> 30, ffmpeg_ok |-> FALSE, output_exists |-> FALSE],
     [probe_ok |-> TRUE, size_mb |-> 101, duration |-> 0, ffmpeg_ok |-> TRUE, output_exists |-> FALSE]}

\* a subprocess of compress_video failed
CompressToolFailed(env) ==
    \/ ~env.probe_ok
    \/ env.size_mb > MaxSizeMB /\ (env.duration = 0 \/ ~env.ffmpeg_ok)

LineA == [label |-> "A.", text |-> "A. first", emb |-> V(EmbeddingDimension, <<1, 0>>)]
LineB == [label |-> "B.", text |-> "B. second", emb |-> V(EmbeddingDimension, <<0, 1>>)]
LineK == [label |-> "K.", text |-> "K. summary", emb |-> V(EmbeddingDimension, <<1, 0>>)]

\* what the analysis model answers
AnalyzeEnvs ==
    {[ok |-> FALSE, analysis |-> <<>>]}
    \cup {[ok |-> TRUE, analysis |-> a] : a \in {<<LineK>>, <<LineK, LineA>>, <<LineA, LineB>>}}

\* what the segmented embedding call answers
SegmentEnvs ==
    {[ok |-> FALSE, segments_data |-> <<>>]}
    \cup {[ok |-> TRUE, segments_data |-> d] :
            d \in {<<>>,
                   <<V(EmbeddingDimension, <<3, 4>>)>>,
                   <<V(EmbeddingDimension, <<0, 1>>), V(EmbeddingDimension, <<3, 4>>)>>}}

\* job_status as extract_highlight creates it
NewJob ==
    [status |-> "processing", current_step |-> 1, progress |-> 0,
     step_messages |-> [k \in Stages |-> IF k = 1 THEN "running" ELSE "waiting"],
     criteria |-> Absent, compressed_path |-> Absent, analysis |-> Absent,
     clips |-> Absent, clips_count |-> Absent,
     highlight_video_path |-> Absent, error |-> Absent]

NoLocals ==
    [criteria |-> "", compressed_path |-> "", analysis |-> <<>>, clips |-> <<>>,
     selected_clips |-> <<>>, exception |-> ""]

\* history: the stages begun, the stages whose external operation failed, the
\* stage whose call raised into process_highlight (0: none), and the artifact
\* each stage wrote to the job record
NoHistory ==
    [started |-> {}, ext_failed |-> {}, raised_at |-> 0,
     recorded |-> [k \in Stages |-> Absent]]

At(l, k) == [at |-> l, stage |-> k]

\* a response of get_job_status or download_highlight: the HTTP code, the job
\* status the handler read ("unknown": no such job), the 'error' field and the
\* file sent
JobResponse(kind, code, st, err, file) ==
    [kind |-> kind, code |-> code, status |-> st, error |-> err, file |-> file]
NoJobResponse == JobResponse("none", 0, "unknown", Absent, Absent)

PipelineInit ==
    /\ highlight_jobs = <<>>
    /\ h_pc = [j \in JobIds |-> At("idle", 0)]
    /\ h_local = [j \in JobIds |-> NoLocals]
    /\ h_hist = [j \in JobIds |-> NoHistory]
    /\ h_resp = [j \in JobIds |-> NoJobResponse]

Job(j) == highlight_jobs[j]
SetJob(j, r) == highlight_jobs' = [highlight_jobs EXCEPT ![j] = r]
Goto(j, l, k) == h_pc' = [h_pc EXCEPT ![j] = At(l, k)]

\* extract_highlight: the job is registered and its worker thread started
SubmitHighlight(j) ==
    /\ h_pc[j] = At("idle", 0)
    /\ highlight_jobs' = [k \in DOMAIN highlight_jobs \cup {j} |->
                             IF k = j THEN NewJob ELSE highlight_jobs[k]]
    /\ Goto(j, "begin", 1)
    /\ UNCHANGED <<h_local, h_hist>>

\* mutant: every stage restarts the progress from 0
StageBegin_ResetsProgress(j, k) ==
    /\ h_pc[j] = At("begin", k)
    /\ SetJob(j, [Job(j) EXCEPT !.current_step = k,
                                !.progress = 0,
                                !.step_messages[k] = "running"])
    /\ Goto(j, "call", k)
    /\ h_hist' = [h_hist EXCEPT ![j].started = @ \cup {k}]
    /\ UNCHANGED h_local

\* the statements that open stage k
StageBegin(j, k) ==
    /\ h_pc[j] = At("begin", k)
    /\ SetJob(j, [Job(j) EXCEPT !.current_step = k,
                                !.progress = IF k = 1 THEN 5 ELSE @,
                                !.step_messages[k] = "running"])
    /\ Goto(j, "call", k)
    /\ h_hist' = [h_hist EXCEPT ![j].started = @ \cup {k}]
    /\ UNCHANGED h_local

\* the end of stage k's call r: an exception leaves the try block for the
\* handler; otherwise the stage's statements after the call run
StageEnd(j, k, r, ext_fail, job_after, local_after, artifact, next) ==
    /\ h_hist' = [h_hist EXCEPT
                     ![j].ext_failed = IF ext_fail THEN @ \cup {k} ELSE @,
                     ![j].raised_at = IF r.raised THEN k ELSE @,
                     ![j].recorded[k] = IF r.raised THEN @ ELSE Some(artifact)]
    /\ IF r.raised
       THEN /\ h_local' = [h_local EXCEPT ![j].exception = r.error]
            /\ Goto(j, "fail_status", k)
            /\ UNCHANGED highlight_jobs
       ELSE /\ SetJob(j, job_after)
            /\ h_local' = [h_local EXCEPT ![j] = local_after]
            /\ h_pc' = [h_pc EXCEPT ![j] = next]

Stage1Call(j) ==
    /\ h_pc[j] = At("call", 1)
    /\ \E bedrock_ok \in BOOLEAN :
         LET r == GenerateCriteria(bedrock_ok)
         IN  StageEnd(j, 1, r, ~bedrock_ok,
                      [Job(j) EXCEPT !.criteria = Some(r.value),
                                     !.step_messages[1] = "done", !.progress = 15],
                      [h_local[j] EXCEPT !.criteria = r.value],
                      r.value, At("begin", 2))

Stage2Call(j) ==
    /\ h_pc[j] = At("call", 2)
    /\ \E env \in CompressEnvs :
         LET r == CompressVideo(VideoPath, CompressedPath, env)
         IN  StageEnd(j, 2, r, CompressToolFailed(env),
                      [Job(j) EXCEPT !.compressed_path = Some(r.value),
                                     !.step_messages[2] = "done", !.progress = 25],
                      [h_local[j] EXCEPT !.compressed_path = r.value],
                      r.value, At("begin", 3))

Stage3Call(j) ==
    /\ h_pc[j] = At("call", 3)
    /\ \E env \in AnalyzeEnvs :
         LET r == AnalyzeVideo(env)
         IN  StageEnd(j, 3, r, ~env.ok,
                      [Job(j) EXCEPT !.analysis = Some(r.value),
                                     !.step_messages[3] = "done", !.progress = 45],
                      [h_local[j] EXCEPT !.analysis = r.value],
                      r.value, At("begin", 4))

Stage4Call(j) ==
    /\ h_pc[j] = At("call", 4)
    /\ \E env \in SegmentEnvs :
         LET r == ExtractClipsWithEmbeddings(SegmentDuration, env)
         IN  StageEnd(j, 4, r, ~env.ok,
                      [Job(j) EXCEPT !.clips = Some(r.value),
                                     !.step_messages[4] = "done", !.progress = 65],
                      [h_local[j] EXCEPT !.clips = r.value],
                      r.value, At("begin", 5))

\* stage 5 when the embedding service and ffmpeg behave as env says
Stage5With(j, env) ==
    LET r == MatchClips(h_local[j].analysis, h_local[j].clips, env[1], env[2])
    IN  StageEnd(j, 5, r, r.raised,
                 [Job(j) EXCEPT !.clips = Some(ClipsInfo(r.value)),
                                !.clips_count = Some(Len(r.value)),
                                !.step_messages[5] = "done", !.progress = 85],
                 [h_local[j] EXCEPT !.selected_clips = r.value],
                 ClipsInfo(r.value), At("begin", 6))

Stage5Call(j) ==
    /\ h_pc[j] = At("call", 5)
    /\ \E env \in MatchEnvs(h_local[j].analysis) : Stage5With(j, env)

Stage6Call(j) ==
    /\ h_pc[j] = At("call", 6)
    /\ \E tool_ok \in BOOLEAN :
         LET r == CreateHighlightVideo(h_local[j].selected_clips, HighlightVideoPath, tool_ok)
         IN  StageEnd(j, 6, r, ~tool_ok /\ Len(h_local[j].selected_clips) > 0,
                      [Job(j) EXCEPT !.highlight_video_path = Some(r.value),
                                     !.step_messages[6] = "done", !.progress = 100],
                      h_local[j],
                      r.value, At("finish", 6))

\* the last statements of the try block
Finish(j) ==
    /\ h_pc[j] = At("finish", 6)
    /\ SetJob(j, [Job(j) EXCEPT !.status = "completed", !.current_step = 6])
    /\ Goto(j, "done", 6)
    /\ UNCHANGED <<h_local, h_hist>>

\* mutant: the handler starts the job record afresh
FailStatus_Wipes(j) ==
    /\ h_pc[j].at = "fail_status"
    /\ SetJob(j, [NewJob EXCEPT !.status = "failed"])
    /\ Goto(j, "fail_error", h_pc[j].stage)
    /\ UNCHANGED <<h_local, h_hist>>

\* the except block, first statement: status
FailStatus(j) ==
    /\ h_pc[j].at = "fail_status"
    /\ SetJob(j, [Job(j) EXCEPT !.status = "failed"])
    /\ Goto(j, "fail_error", h_pc[j].stage)
    /\ UNCHANGED <<h_local, h_hist>>

\* the except block, second statement: error = str(e)
FailError(j) ==
    /\ h_pc[j].at = "fail_error"
    /\ SetJob(j, [Job(j) EXCEPT !.error = Some(h_local[j].exception)])
    /\ Goto(j, "done", h_pc[j].stage)
    /\ UNCHANGED <<h_local, h_hist>>

\* get_job_status: 404 for an unknown job, otherwise the fields of the job
GetJobStatus(j) ==
    /\ h_resp' = [h_resp EXCEPT ![j] =
                     IF j \notin DOMAIN highlight_jobs
                     THEN JobResponse("status", 404, "unknown", Some("job not found"), Absent)
                     ELSE JobResponse("status", 200, Job(j).status, Job(j).error, Absent)]
    /\ UNCHANGED <<highlight_jobs, h_pc, h_local, h_hist>>

\* mutant: the file is sent whatever the status of the job
DownloadHighlight_NoStatusTest(j) ==
    /\ \E file_exists \in BOOLEAN :
         h_resp' = [h_resp EXCEPT ![j] =
            IF j \notin DOMAIN highlight_jobs
            THEN JobResponse("download", 404, "unknown", Some("job not found"), Absent)
            ELSE IF Job(j).highlight_video_path = Absent \/ ~file_exists
            THEN JobResponse("download", 404, Job(j).status,
                             Some("video file does not exist"), Absent)
            ELSE JobResponse("download", 200, Job(j).status, Absent,
                             Job(j).highlight_video_path)]
    /\ UNCHANGED <<highlight_jobs, h_pc, h_local, h_hist>>

\* download_highlight: 404 for an unknown job, 400 unless the job is completed,
\* 404 when the file is not on disk, otherwise the file
DownloadHighlight(j) ==
    /\ \E file_exists \in BOOLEAN :
         h_resp' = [h_resp EXCEPT ![j] =
            IF j \notin DOMAIN highlight_jobs
            THEN JobResponse("download", 404, "unknown", Some("job not found"), Absent)
            ELSE IF Job(j).status # "completed"
            THEN JobResponse("download", 400, Job(j).status,
                             Some("video not generated yet"), Absent)
            ELSE IF Job(j).highlight_video_path = Absent \/ ~file_exists
            THEN JobResponse("download", 404, Job(j).status,
                             Some("video file does not exist"), Absent)
            ELSE JobResponse("download", 200, Job(j).status, Absent,
                             Job(j).highlight_video_path)]
    /\ UNCHANGED <<highlight_jobs, h_pc, h_local, h_hist>>

(***************************************************************************)
(* Upload of video and audio: the asynchronous embedding and its watcher    *)
(***************************************************************************)
FileIds == {"file1"}
MaxWaitTime == 1800
CheckInterval == 30

\* error texts are kept as the sequence of the parts they are formatted from
NonEmptyText(t) == \E i \in 1..Len(t) : t[i] # ""

\* response.get('failureMessage', 'Unknown error')
FailureMessages == {Absent, Some(""), Some("model error")}
FailureMessage(response) ==
    IF response.failureMessage = Absent THEN "Unknown error" ELSE response.failureMessage[1]

TimeoutText == <<"Async task timeout after ", ToString(MaxWaitTime), " seconds">>
FailedText(error_msg) == <<"Async task failed: ", error_msg>>

\* an item of a result file: a segment with or without its 'embedding' key
Seg(v) == [has_embedding |-> TRUE, embedding |-> v]
SegNoKey == [has_embedding |-> FALSE, embedding |-> NullVec]
ResultFile(f, st, items) == [format |-> f, status |-> st, items |-> items]
NoFile == ResultFile("none", "", <<>>)

\* the result files the service may leave in the bucket
ResultFiles ==
    {ResultFile("other", "", <<>>),
     ResultFile("embeddings", "", <<>>),
     ResultFile("embeddings", "", <<Seg(V(1024, <<>>))>>),
     ResultFile("embeddings", "", <<Seg(V(0, <<>>)), SegNoKey>>),
     ResultFile("embeddings", "", <<Seg(NullVec), Seg(V(1024, <<>>))>>),
     ResultFile("embeddings", "", <<Seg(V(1024, <<1, 2>>)), Seg(V(1024, <<>>))>>),
     ResultFile("embeddings", "", <<Seg(V(1024, <<1, 0>>)), Seg(V(1024, <<-1>>))>>),
     ResultFile("embeddings", "", <<Seg(V(1024, <<1, 2>>)), Seg(V(256, <<3>>))>>),
     ResultFile("segments", "", <<SegNoKey, Seg(V(1024, <<2, 4>>)), Seg(V(1024, <<0, 2>>))>>),
     ResultFile("segments", "", <<SegNoKey>>),
     ResultFile("embeddingResults", "SUCCESS", <<Seg(V(1024, <<1, 2>>)), SegNoKey>>),
     ResultFile("embeddingResults", "FAILURE", <<>>)}

\* the invocation as the service holds it
Invocation(st, msg, file) == [status |-> st, failureMessage |-> msg, file |-> file]

\* check_async_status: the status and the response, or the wrapped exception
CheckAsyncStatus(call_ok, invocation) ==
    IF call_ok THEN Ret([status |-> invocation.status, response |-> invocation])
    ELSE Raise(<<"Failed to check async status: ", "get_async_invoke failed">>,
               [status |-> "", response |-> invocation])

\* what get_async_results returns: None, or a dict with or without 'embeddings'
NoneResult == [none |-> TRUE, has_embeddings |-> FALSE, embeddings |-> <<>>]
Result(has, embs) == [none |-> FALSE, has_embeddings |-> has, embeddings |-> embs]

\* the items that carry an 'embedding' key, rewrapped
WithEmbedding(items) == SelectSeq(items, LAMBDA it : it.has_embedding)

\* get_async_results
GetAsyncResults(check, get_ok, file) ==
    IF check.raised
    THEN Raise(<<"Failed to get async results: ">> \o check.error, NoneResult)
    ELSE IF check.value.status # "Completed" THEN Ret(NoneResult)
    ELSE IF ~get_ok
    THEN Raise(<<"Failed to get async results: ", "get_object failed">>, NoneResult)
    ELSE IF file.format = "embeddingResults"
    THEN IF file.status = "SUCCESS"
         THEN Ret(Result(TRUE, WithEmbedding(file.items)))
         ELSE Raise(<<"Failed to get async results: ", "Embedding generation failed: ",
                      file.status>>, NoneResult)
    ELSE IF file.format = "embeddings" THEN Ret(Result(TRUE, file.items))
    ELSE IF file.format = "segments" THEN Ret(Result(TRUE, WithEmbedding(file.items)))
    ELSE Ret(Result(FALSE, <<>>))

\* mutant: running out of time is reported as a failure of the task
WaitForCompletionStep_TimeoutAsFailure(elapsed, check) ==
    IF elapsed >= MaxWaitTime
    THEN [next |-> "raise", outcome |-> "failed", error |-> FailedText("Unknown error")]
    ELSE IF check.raised
    THEN [next |-> "raise", outcome |-> "error", error |-> check.error]
    ELSE IF check.value.status = "Completed"
    THEN [next |-> "fetch", outcome |-> "returned", error |-> <<>>]
    ELSE IF check.value.status = "Failed"
    THEN [next |-> "raise", outcome |-> "failed",
          error |-> FailedText(FailureMessage(check.value.response))]
    ELSE [next |-> "sleep", outcome |-> "none", error |-> <<>>]

\* wait_for_completion: one evaluation of the loop condition and, inside the
\* deadline, one poll
WaitForCompletionStep(elapsed, check) ==
    IF elapsed >= MaxWaitTime
    THEN [next |-> "raise", outcome |-> "timeout", error |-> TimeoutText]
    ELSE IF check.raised
    THEN [next |-> "raise", outcome |-> "error", error |-> check.error]
    ELSE IF check.value.status = "Completed"
    THEN [next |-> "fetch", outcome |-> "returned", error |-> <<>>]
    ELSE IF check.value.status = "Failed"
    THEN [next |-> "raise", outcome |-> "failed",
          error |-> FailedText(FailureMessage(check.value.response))]
    ELSE [next |-> "sleep", outcome |-> "none", error |-> <<>>]

\* the test process_async_result applies to a segment before averaging it
IsValidSegment(emb) ==
    /\ emb.has_embedding
    /\ ~emb.embedding.null
    /\ emb.embedding.len > 0
    /\ AnyNonZero(emb.embedding)

ValidEmbeddings(embeddings) ==
    LET kept == SelectSeq(embeddings, IsValidSegment)
    IN  [i \in 1..Len(kept) |-> kept[i].embedding]

Component(h, i) == IF i <= Len(h) THEN h[i] ELSE 0
MaxHead(vs) == CHOOSE n \in 0..8 :
                  /\ \A i \in 1..Len(vs) : Len(vs[i].head) <= n
                  /\ \E i \in 1..Len(vs) : Len(vs[i].head) = n

RECURSIVE SumAt(_, _)
SumAt(vs, c) == IF vs = <<>> THEN 0 ELSE Component(Head(vs).head, c) + SumAt(Tail(vs), c)

\* np.mean(valid_embeddings, axis=0): rows of unequal length do not make an
\* array; otherwise the component sums over the row count (kept as sums and div)
Mean(vs) ==
    IF \E i \in 1..Len(vs) : vs[i].len # vs[1].len
    THEN Raise(<<"setting an array element with a sequence: inhomogeneous shape">>, NullVec)
    ELSE Ret([null |-> FALSE, len |-> vs[1].len,
              head |-> [c \in 1..MaxHead(vs) |-> SumAt(vs, c)],
              nan |-> \E i \in 1..Len(vs) : vs[i].nan,
              div |-> Len(vs)])

\* what the watcher decides to write to the job, and the vector to store if any
Decision(st, err, n, v) == [status |-> st, error |-> err, segments |-> n, store |-> v]
FailWith(err) == Decision("failed", err, 0, Absent)

\* mutant: segments without a usable vector are let through in silence
Decide_KeepsProcessing(result) ==
    IF result.none \/ ~result.has_embeddings
    THEN FailWith(<<"Invalid result format - no embeddings key found">>)
    ELSE IF Len(result.embeddings) = 0 THEN FailWith(<<"No embeddings in result">>)
    ELSE LET valid == ValidEmbeddings(result.embeddings)
         IN  IF valid = <<>> THEN Decision("processing", <<>>, 0, Absent)
             ELSE LET mean == Mean(valid)
                  IN  IF mean.raised THEN FailWith(mean.error)
                      ELSE IF mean.value.len > 0 /\ AnyNonZero(mean.value)
                      THEN Decision("completed", <<>>, Len(valid), Some(mean.value))
                      ELSE FailWith(<<"Generated embedding is empty or all zeros">>)

\* mutant: the segment count is taken over all segments of the result
Decide_CountsAllSegments(result) ==
    IF result.none \/ ~result.has_embeddings
    THEN FailWith(<<"Invalid result format - no embeddings key found">>)
    ELSE IF Len(result.embeddings) = 0 THEN FailWith(<<"No embeddings in result">>)
    ELSE LET valid == ValidEmbeddings(result.embeddings)
         IN  IF valid = <<>> THEN FailWith(<<"No valid embeddings found in segments">>)
             ELSE LET mean == Mean(valid)
                  IN  IF mean.raised THEN FailWith(mean.error)
                      ELSE IF mean.value.len > 0 /\ AnyNonZero(mean.value)
                      THEN Decision("completed", <<>>, Len(result.embeddings),
                                    Some(mean.value))
                      ELSE FailWith(<<"Generated embedding is empty or all zeros">>)

\* process_async_result, from the result of wait_for_completion to the choice
\* between storing the averaged vector and failing the job
Decide(result) ==
    IF result.none \/ ~result.has_embeddings
    THEN FailWith(<<"Invalid result format - no embeddings key found">>)
    ELSE IF Len(result.embeddings) = 0 THEN FailWith(<<"No embeddings in result">>)
    ELSE LET valid == ValidEmbeddings(result.embeddings)
         IN  IF valid = <<>> THEN FailWith(<<"No valid embeddings found in segments">>)
             ELSE LET mean == Mean(valid)
                  IN  IF mean.raised THEN FailWith(mean.error)
                      ELSE IF mean.value.len > 0 /\ AnyNonZero(mean.value)
                      THEN Decision("completed", <<>>, Len(valid), Some(mean.value))
                      ELSE FailWith(<<"Generated embedding is empty or all zeros">>)

\* S3VectorSearch.add_vector
S3AddVector(vector, put_ok) ==
    IF vector.len = 0 THEN Raise(<<"Vector is empty">>, FALSE)
    ELSE IF ~AnyNonZero(vector) THEN Raise(<<"Vector contains all zeros">>, FALSE)
    ELSE IF ~put_ok THEN Raise(<<"Failed to add vector: ", "put_vectors failed">>, FALSE)
    ELSE Ret(TRUE)

VARIABLES
    async_jobs,   \* app.async_jobs: file id -> job info, for the uploads made
    invocations,  \* the asynchronous invocations as the service holds them
    s3_vectors,   \* the vectors put in the S3 Vectors index: id -> vector
    a_pc,         \* where each upload's process_async_result thread stands
    a_elapsed,    \* time.time() - start_time in its wait_for_completion
    a_local,      \* what the thread is about to write to the job
    a_hist,       \* what happened to the upload so far (history)
    q_pc,         \* where a get_async_status request for the file stands
    q_local,      \* the failure message that request read
    q_resp        \* the last response of get_async_status

avars == <<async_jobs, invocations, s3_vectors, a_pc, a_elapsed, a_local, a_hist,
           q_pc, q_local, q_resp>>

NoUploadHistory ==
    [poll_raised |-> FALSE, outcome |-> "none", retrieved |-> Absent,
     add_called |-> FALSE]
NoResponse == [status |-> "none", error |-> Absent, segments |-> Absent]

UploadInit ==
    /\ async_jobs = <<>>
    /\ invocations = [f \in FileIds |-> Invocation("NotStarted", Absent, NoFile)]
    /\ s3_vectors = <<>>
    /\ a_pc = [f \in FileIds |-> "idle"]
    /\ a_elapsed = [f \in FileIds |-> 0]
    /\ a_local = [f \in FileIds |-> FailWith(<<>>)]
    /\ a_hist = [f \in FileIds |-> NoUploadHistory]
    /\ q_pc = [f \in FileIds |-> "idle"]
    /\ q_local = [f \in FileIds |-> ""]
    /\ q_resp = [f \in FileIds |-> NoResponse]

\* upload_file for a video or audio file: the invocation is started, the job
\* registered and the watcher thread started
UploadAsync(f) ==
    /\ a_pc[f] = "idle"
    /\ invocations' = [invocations EXCEPT ![f] = Invocation("InProgress", Absent, NoFile)]
    /\ async_jobs' = [g \in DOMAIN async_jobs \cup {f} |->
                         IF g = f
                         THEN [status |-> "processing", error |-> Absent, segments |-> Absent]
                         ELSE async_jobs[g]]
    /\ a_pc' = [a_pc EXCEPT ![f] = "poll"]
    /\ UNCHANGED <<s3_vectors, a_elapsed, a_local, a_hist, q_pc, q_local, q_resp>>

\* the service finishes the invocation and leaves its result file
ServiceCompletes(f) ==
    /\ invocations[f].status = "InProgress"
    /\ \E file \in ResultFiles :
         invocations' = [invocations EXCEPT ![f] = Invocation("Completed", Absent, file)]
    /\ UNCHANGED <<async_jobs, s3_vectors, a_pc, a_elapsed, a_local, a_hist,
                   q_pc, q_local, q_resp>>

\* the service gives the invocation up
ServiceFails(f) ==
    /\ invocations[f].status = "InProgress"
    /\ \E msg \in FailureMessages :
         invocations' = [invocations EXCEPT ![f] = Invocation("Failed", msg, NoFile)]
    /\ UNCHANGED <<async_jobs, s3_vectors, a_pc, a_elapsed, a_local, a_hist,
                   q_pc, q_local, q_resp>>

\* wait_for_completion: the loop condition and one poll
WaitPoll(f) ==
    /\ a_pc[f] = "poll"
    /\ \E call_ok \in BOOLEAN :
         LET check == CheckAsyncStatus(call_ok, invocations[f])
             step == WaitForCompletionStep(a_elapsed[f], check)
         IN  /\ a_pc' = [a_pc EXCEPT ![f] = IF step.next = "raise" THEN "write_status"
                                           ELSE step.next]
             /\ a_local' = [a_local EXCEPT ![f] = IF step.next = "raise"
                                                 THEN FailWith(step.error) ELSE @]
             /\ a_hist' = [a_hist EXCEPT
                              ![f].poll_raised = @ \/ (a_elapsed[f] < MaxWaitTime /\ check.raised),
                              ![f].outcome = step.outcome]
    /\ UNCHANGED <<async_jobs, invocations, s3_vectors, a_elapsed, q_pc, q_local, q_resp>>

\* mutant: the clock of the wait loop stands still
WaitSleep_NoClock(f) ==
    /\ a_pc[f] = "sleep"
    /\ a_pc' = [a_pc EXCEPT ![f] = "poll"]
    /\ UNCHANGED <<async_jobs, invocations, s3_vectors, a_elapsed, a_local, a_hist,
                   q_pc, q_local, q_resp>>

\* time.sleep(check_interval)
WaitSleep(f) ==
    /\ a_pc[f] = "sleep"
    /\ a_elapsed' = [a_elapsed EXCEPT ![f] = @ + CheckInterval]
    /\ a_pc' = [a_pc EXCEPT ![f] = "poll"]
    /\ UNCHANGED <<async_jobs, invocations, s3_vectors, a_local, a_hist,
                   q_pc, q_local, q_resp>>

\* get_async_results, then the watcher's checks, the averaging and add_vector
FetchAndStore(f) ==
    /\ a_pc[f] = "fetch"
    /\ \E call_ok, get_ok, put_ok \in BOOLEAN :
         LET check == CheckAsyncStatus(call_ok, invocations[f])
             r == GetAsyncResults(check, get_ok, invocations[f].file)
             decision == Decide(r.value)
             add == S3AddVector(decision.store[1], put_ok)
         IN  IF r.raised
             THEN /\ a_local' = [a_local EXCEPT ![f] = FailWith(r.error)]
                  /\ a_hist' = [a_hist EXCEPT ![f].outcome = "error"]
                  /\ UNCHANGED s3_vectors
             ELSE IF decision.store = Absent
             THEN /\ a_local' = [a_local EXCEPT ![f] = decision]
                  /\ a_hist' = [a_hist EXCEPT ![f].retrieved = Some(r.value)]
                  /\ UNCHANGED s3_vectors
             ELSE /\ a_hist' = [a_hist EXCEPT ![f].retrieved = Some(r.value),
                                              ![f].add_called = TRUE]
                  /\ IF add.raised
                     THEN /\ a_local' = [a_local EXCEPT ![f] =
                                 FailWith(<<"Vector storage failed: ">> \o add.error)]
                          /\ UNCHANGED s3_vectors
                     ELSE /\ a_local' = [a_local EXCEPT ![f] = decision]
                          /\ s3_vectors' = [g \in DOMAIN s3_vectors \cup {f} |->
                                               IF g = f THEN decision.store[1]
                                               ELSE s3_vectors[g]]
    /\ a_pc' = [a_pc EXCEPT ![f] = "write_status"]
    /\ UNCHANGED <<async_jobs, invocations, a_elapsed, q_pc, q_local, q_resp>>

\* async_jobs[file_id]['status'] = ...
WatcherWriteStatus(f) ==
    /\ a_pc[f] = "write_status"
    /\ async_jobs' = [async_jobs EXCEPT ![f].status = a_local[f].status]
    /\ a_pc' = [a_pc EXCEPT ![f] = "write_detail"]
    /\ UNCHANGED <<invocations, s3_vectors, a_elapsed, a_local, a_hist,
                   q_pc, q_local, q_resp>>

\* async_jobs[file_id]['error'] = ... or ['segments'] = ...; the thread returns
WatcherWriteDetail(f) ==
    /\ a_pc[f] = "write_detail"
    /\ async_jobs' = [async_jobs EXCEPT
                         ![f].error = IF a_local[f].status = "failed"
                                      THEN Some(a_local[f].error) ELSE @,
                         ![f].segments = IF a_local[f].status = "completed"
                                         THEN Some(a_local[f].segments) ELSE @]
    /\ a_pc' = [a_pc EXCEPT ![f] = "done"]
    /\ UNCHANGED <<invocations, s3_vectors, a_elapsed, a_local, a_hist,
                   q_pc, q_local, q_resp>>

\* get_async_status: the job is looked up and its status tested
QueryBegin(f) ==
    /\ q_pc[f] = "idle"
    /\ f \in DOMAIN async_jobs
    /\ q_pc' = [q_pc EXCEPT ![f] = IF async_jobs[f].status = "processing"
                                   THEN "poll" ELSE "respond"]
    /\ UNCHANGED <<async_jobs, invocations, s3_vectors, a_pc, a_elapsed, a_local,
                   a_hist, q_local, q_resp>>

\* get_async_status: check_async_status; its exception is only logged
QueryPoll(f) ==
    /\ q_pc[f] = "poll"
    /\ \E call_ok \in BOOLEAN :
         LET check == CheckAsyncStatus(call_ok, invocations[f])
         IN  IF ~check.raised /\ check.value.status = "Failed"
             THEN /\ q_pc' = [q_pc EXCEPT ![f] = "write_status"]
                  /\ q_local' = [q_local EXCEPT ![f] = FailureMessage(check.value.response)]
             ELSE /\ q_pc' = [q_pc EXCEPT ![f] = "respond"]
                  /\ UNCHANGED q_local
    /\ UNCHANGED <<async_jobs, invocations, s3_vectors, a_pc, a_elapsed, a_local,
                   a_hist, q_resp>>

\* get_async_status: job_info['status'] = 'failed'
QueryWriteStatus(f) ==
    /\ q_pc[f] = "write_status"
    /\ async_jobs' = [async_jobs EXCEPT ![f].status = "failed"]
    /\ q_pc' = [q_pc EXCEPT ![f] = "write_error"]
    /\ UNCHANGED <<invocations, s3_vectors, a_pc, a_elapsed, a_local, a_hist,
                   q_local, q_resp>>

\* get_async_status: job_info['error'] = the failure message
QueryWriteError(f) ==
    /\ q_pc[f] = "write_error"
    /\ async_jobs' = [async_jobs EXCEPT ![f].error = Some(<<q_local[f]>>)]
    /\ q_pc' = [q_pc EXCEPT ![f] = "respond"]
    /\ UNCHANGED <<invocations, s3_vectors, a_pc, a_elapsed, a_local, a_hist,
                   q_local, q_resp>>

\* get_async_status: the response is built from the job
QueryRespond(f) ==
    /\ q_pc[f] = "respond"
    /\ q_resp' = [q_resp EXCEPT ![f] = [status |-> async_jobs[f].status,
                                        error |-> async_jobs[f].error,
                                        segments |-> async_jobs[f].segments]]
    /\ q_pc' = [q_pc EXCEPT ![f] = "idle"]
    /\ UNCHANGED <<async_jobs, invocations, s3_vectors, a_pc, a_elapsed, a_local,
                   a_hist, q_local>>

(***************************************************************************)
(* The vector store: DimensionAwareVectorSearch                              *)
(***************************************************************************)
Dimensions == {256, 384, 1024, 3072}
MinDimension == 100
DefaultTopK == 5

\* a dict is kept as the sequence of its items, in insertion order
DictHas(d, id) == \E i \in 1..Len(d) : d[i].id = id
DictSet(d, id, v) ==
    IF DictHas(d, id)
    THEN [i \in 1..Len(d) |-> IF d[i].id = id THEN [id |-> id, vector |-> v] ELSE d[i]]
    ELSE Append(d, [id |-> id, vector |-> v])
DictDel(d, id) == SelectSeq(d, LAMBDA it : it.id # id)

MapSet(f, k, v) == [x \in DOMAIN f \cup {k} |-> IF x = k THEN v ELSE f[x]]
MapDel(f, k) == [x \in DOMAIN f \ {k} |-> f[x]]

\* metadata_with_dim = {**metadata, 'dimension': dimension}
MetadataWithDim(metadata, dimension) == [text |-> metadata, dimension |-> dimension]

\* mutant: all-zero vectors are let through
AddVectorCheck_NoZeroTest(vector) ==
    IF vector.null \/ vector.len = 0 THEN Raise(<<"Vector is empty">>, FALSE)
    ELSE IF vector.len \notin Dimensions
    THEN Raise(<<"Unsupported dimension: ", ToString(vector.len)>>, FALSE)
    ELSE IF vector.len < MinDimension
    THEN Raise(<<"Vector dimension too small: ", ToString(vector.len)>>, FALSE)
    ELSE Ret(TRUE)

\* add_vector, its checks: the error raised, or nothing
AddVectorCheck(vector) ==
    IF vector.null \/ vector.len = 0 THEN Raise(<<"Vector is empty">>, FALSE)
    ELSE IF ~AnyNonZero(vector) THEN Raise(<<"Vector contains all zeros">>, FALSE)
    ELSE IF vector.len \notin Dimensions
    THEN Raise(<<"Unsupported dimension: ", ToString(vector.len)>>, FALSE)
    ELSE IF vector.len < MinDimension
    THEN Raise(<<"Vector dimension too small: ", ToString(vector.len)>>, FALSE)
    ELSE Ret(TRUE)

\* DimensionAwareVectorSearch.cosine_similarity: 0.0 for a zero norm and for a
\* quotient that is not a number; np.dot raises on unequal lengths
DvsCosine(vec1, vec2) ==
    IF vec1.len # vec2.len THEN Raise(<<"shapes not aligned">>, SimNaN)
    ELSE IF ~vec1.nan /\ SumSq(vec1.head) = 0 THEN Ret(SimZero)
    ELSE IF ~vec2.nan /\ SumSq(vec2.head) = 0 THEN Ret(SimZero)
    ELSE IF vec1.nan \/ vec2.nan THEN Ret(SimZero)
    ELSE Ret(Sim(DotHead(vec1.head, vec2.head), SumSq(vec1.head) * SumSq(vec2.head)))

\* the order in which list_objects_v2 lists the keys of a prefix
IdOrder == <<"a", "b">>
Ids == {IdOrder[i] : i \in 1..Len(IdOrder)}

\* load_vectors_by_dimension: every object under vectors/{dimension}/ that can be
\* read is put in the shard and in the metadata; errors are only logged
RECURSIVE LoadInto(_, _, _, _)
LoadInto(mem, objects, dimension, ids) ==
    IF ids = <<>> THEN mem
    ELSE LET id == Head(ids)
             key == <<dimension, id>>
             next == IF key \in DOMAIN objects
                     THEN [shards |-> [mem.shards EXCEPT ![dimension] =
                                          DictSet(@, objects[key].id, objects[key].vector)],
                           metadata |-> MapSet(mem.metadata, objects[key].id,
                                               objects[key].metadata)]
                     ELSE mem
         IN  LoadInto(next, objects, dimension, Tail(ids))

LoadVectorsByDimension(mem, objects, dimension, s3_ok) ==
    IF s3_ok THEN LoadInto(mem, objects, dimension, IdOrder) ELSE mem

\* the keys of self.vectors_by_dimension, in the order of the dict
DimensionOrder == <<256, 384, 1024, 3072>>
DefaultDimension == 1024

\* len(response.get('Contents', [])) for the prefix vectors/{dimension}/
CountObjects(objects, dimension) ==
    Cardinality({k \in DOMAIN objects : k[1] = dimension})

\* get_dimension_stats: the sizes of the shards in memory; only when they are all
\* empty, the number of objects under each prefix, up to the listing that fails
\* (fail_at = 0: none fails)
GetDimensionStats(shards, objects, fail_at) ==
    LET in_memory == [d \in Dimensions |-> Len(shards[d])]
    IN  IF \E d \in Dimensions : in_memory[d] # 0
        THEN in_memory
        ELSE [d \in Dimensions |->
                 LET i == CHOOSE n \in 1..Len(DimensionOrder) : DimensionOrder[n] = d
                 IN  IF fail_at = 0 \/ i < fail_at
                     THEN CountObjects(objects, d)
                     ELSE in_memory[d]]

\* max(stats, key=stats.get): the first key of the dict with the greatest count
MostCommon(stats) ==
    LET best == CHOOSE n \in 1..Len(DimensionOrder) :
                   /\ \A m \in 1..Len(DimensionOrder) :
                        stats[DimensionOrder[m]] <= stats[DimensionOrder[n]]
                   /\ \A m \in 1..(n - 1) :
                        stats[DimensionOrder[m]] < stats[DimensionOrder[n]]
    IN  DimensionOrder[best]

\* detect_vector_dimension
DetectVectorDimension(shards, objects, fail_at) ==
    LET stats == GetDimensionStats(shards, objects, fail_at)
    IN  IF \A d \in Dimensions : stats[d] = 0
        THEN DefaultDimension
        ELSE MostCommon(stats)

\* similarities[:top_k]
Slice(s, top_k) ==
    IF top_k >= 0 THEN Take(s, top_k)
    ELSE SubSeq(s, 1, IF Len(s) + top_k > 0 THEN Len(s) + top_k ELSE 0)

\* the loop of search over the items of the shard
RECURSIVE Similarities(_, _, _)
Similarities(query_vector, vectors, metadata) ==
    IF vectors = <<>> THEN <<>>
    ELSE LET it == Head(vectors)
             c == DvsCosine(query_vector, it.vector)
             rest == Similarities(query_vector, Tail(vectors), metadata)
         IN  IF c.raised \/ c.value.nan THEN rest
             ELSE <<[id |-> it.id, similarity |-> c.value,
                     metadata |-> IF it.id \in DOMAIN metadata
                                  THEN Some(metadata[it.id]) ELSE Absent]>> \o rest

\* mutant: the sorted list is returned whole
SearchResult_NoCut(query_vector, top_k, vectors, metadata) ==
    SortBySimDesc(Similarities(query_vector, vectors, metadata))

\* mutant: the similarities are cut to top_k in the order of the shard
SearchResult_Unsorted(query_vector, top_k, vectors, metadata) ==
    Slice(Similarities(query_vector, vectors, metadata), top_k)

\* search, once the shard is in memory
SearchResult(query_vector, top_k, vectors, metadata) ==
    Slice(SortBySimDesc(Similarities(query_vector, vectors, metadata)), top_k)

MismatchText == <<"Query vector dimension doesn't match target dimension">>

\* mutant: the shard of the query's length is hydrated before the target
\* dimension is compared
Search_HydratesFirst(mem, objects, query_vector, top_k, target_dimension, s3_ok) ==
    LET query_dimension == query_vector.len
        first == IF query_dimension \in Dimensions /\ mem.shards[query_dimension] = <<>>
                 THEN LoadVectorsByDimension(mem, objects, query_dimension, s3_ok)
                 ELSE mem
        read == query_dimension \in Dimensions /\ mem.shards[query_dimension] = <<>>
    IN  IF target_dimension # Absent /\ query_dimension # target_dimension[1]
        THEN [mem |-> first, out |-> Raise(MismatchText, <<>>),
              searched |-> Absent, hydrated |-> read]
        ELSE IF query_dimension \notin Dimensions
        THEN [mem |-> mem, out |-> Raise(<<"KeyError: ", ToString(query_dimension)>>, <<>>),
              searched |-> Absent, hydrated |-> FALSE]
        ELSE [mem |-> first,
              out |-> Ret(SearchResult(query_vector, top_k,
                                       first.shards[query_dimension], first.metadata)),
              searched |-> Some(query_dimension), hydrated |-> read]

\* search: the memory it leaves, what it returns or raises, the shard it read and
\* whether it called load_vectors_by_dimension
Search(mem, objects, query_vector, top_k, target_dimension, s3_ok) ==
    LET query_dimension == query_vector.len
    IN  IF target_dimension # Absent /\ query_dimension # target_dimension[1]
        THEN [mem |-> mem, out |-> Raise(MismatchText, <<>>),
              searched |-> Absent, hydrated |-> FALSE]
        ELSE IF query_dimension \notin Dimensions
        THEN [mem |-> mem, out |-> Raise(<<"KeyError: ", ToString(query_dimension)>>, <<>>),
              searched |-> Absent, hydrated |-> FALSE]
        ELSE LET loaded == IF mem.shards[query_dimension] = <<>>
                           THEN LoadVectorsByDimension(mem, objects, query_dimension, s3_ok)
                           ELSE mem
             IN  [mem |-> loaded,
                  out |-> Ret(SearchResult(query_vector, top_k,
                                           loaded.shards[query_dimension], loaded.metadata)),
                  searched |-> Some(query_dimension),
                  hydrated |-> mem.shards[query_dimension] = <<>>]

VARIABLES
    vectors_by_dimension,  \* self.vectors_by_dimension: dimension -> dict id -> vector
    metadata,              \* self.metadata: id -> metadata
    s3_objects,            \* the bucket: <<dimension, id>> -> the object vectors/{dimension}/{id}.json
    v_pc,                  \* add_vector: "idle", or "persist" between its memory write and put_object
    v_call,                \* the arguments of the add_vector call in progress
    v_result,              \* what the add_vector call that has just ended returned or raised
    v_hist,                \* the vector of that call, the memory and the bucket when it
                           \* began, and what happened since
    s_result,              \* the search that has just returned: its arguments and outcome
    d_result,              \* the detect_vector_dimension call that has just returned
    l_hist                 \* per dimension: the searches that read the shard and the loads
                           \* they made (history)

svars == <<vectors_by_dimension, metadata, s3_objects, v_pc, v_call, v_result, v_hist,
           s_result, d_result, l_hist>>

Memory == [shards |-> vectors_by_dimension, metadata |-> metadata]
EmptyMemory == [shards |-> [d \in Dimensions |-> <<>>], metadata |-> <<>>]

Object(id, vector, md) ==
    [id |-> id, vector |-> vector, metadata |-> MetadataWithDim(md, vector.len)]

\* what the bucket may hold when the store is constructed
StoredBefore ==
    {<<>>,
     [k \in {<<256, "a">>} |-> Object("a", V(256, <<1, 0>>), "m0")],
     [k \in {<<256, "a">>, <<256, "b">>} |->
         IF k[2] = "a" THEN Object("a", NaNVec(256), "m0")
         ELSE Object("b", V(256, <<1, 1>>), "m0")]}

\* the add_vector calls made: id, vector, metadata
AddCalls ==
    {<<"a", V(256, <<1, 0>>), "m1">>,
     <<"a", V(256, <<1, 1>>), "m1">>,
     <<"b", V(256, <<1, 1>>), "m1">>,
     <<"b", V(384, <<2>>), "m1">>,
     <<"a", V(256, <<>>), "m1">>,
     <<"a", V(384, <<>>), "m1">>,
     <<"a", V(1024, <<>>), "m1">>,
     <<"a", V(3072, <<>>), "m1">>,
     <<"a", V(0, <<>>), "m1">>,
     <<"a", V(50, <<1>>), "m1">>,
     <<"a", V(512, <<1>>), "m1">>}

\* the search calls made: query vector, top_k, target dimension
SearchCalls ==
    {<<V(256, <<1, 0>>), 0, Absent>>,
     <<V(256, <<1, 0>>), 1, Absent>>,
     <<V(256, <<1, 0>>), 2, Some(256)>>,
     <<V(256, <<>>), 1, Absent>>,
     <<NaNVec(256), 2, Absent>>,
     <<V(384, <<1>>), 1, Absent>>,
     <<V(384, <<1>>), DefaultTopK, Some(256)>>,
     <<V(256, <<1, 0>>), 1, Some(384)>>,
     <<V(512, <<1>>), 1, Absent>>}

NoCall == [id |-> "", vector |-> NullVec, metadata |-> "", dimension |-> 0]
NoStoreHistory ==
    [arg |-> NullVec, pre |-> EmptyMemory, pre_objects |-> <<>>, last |-> "none",
     clean |-> TRUE]
NoAddResult == [call |-> FALSE, out |-> Ret(FALSE)]
NoLoadHistory ==
    [d \in Dimensions |-> [searches |-> 0, loads |-> 0, first_loaded |-> FALSE]]
NoDetectResult == [call |-> FALSE, dimension |-> 0, list_failed |-> FALSE]
NoSearchResult ==
    [call |-> FALSE, query_vector |-> NullVec, query_len |-> 0, top_k |-> 0,
     target_dimension |-> Absent,
     out |-> Ret(<<>>), searched |-> Absent, hydrated |-> FALSE]

StoreIdle ==
    /\ vectors_by_dimension = EmptyMemory.shards
    /\ metadata = EmptyMemory.metadata
    /\ v_pc = "idle"
    /\ v_call = NoCall
    /\ v_result = NoAddResult
    /\ v_hist = NoStoreHistory
    /\ s_result = NoSearchResult
    /\ d_result = NoDetectResult
    /\ l_hist = NoLoadHistory

StoreInit == StoreIdle /\ s3_objects \in StoredBefore
StoreUnused == StoreIdle /\ s3_objects = <<>>

\* add_vector up to the write to memory: a rejected vector raises, an accepted one
\* is put in its shard and in the metadata
AddVectorBegin(id, vector, md) ==
    /\ v_pc = "idle"
    /\ LET check == AddVectorCheck(vector)
           dimension == vector.len
       IN  IF check.raised
           THEN /\ v_result' = [call |-> TRUE, out |-> check]
                /\ v_hist' = [arg |-> vector, pre |-> Memory, pre_objects |-> s3_objects,
                              last |-> "rejected", clean |-> TRUE]
                /\ UNCHANGED <<vectors_by_dimension, metadata, v_pc, v_call>>
           ELSE /\ vectors_by_dimension' =
                       [vectors_by_dimension EXCEPT ![dimension] = DictSet(@, id, vector)]
                /\ metadata' = MapSet(metadata, id, MetadataWithDim(md, dimension))
                /\ v_call' = [id |-> id, vector |-> vector, metadata |-> md,
                              dimension |-> dimension]
                /\ v_hist' = [arg |-> vector, pre |-> Memory, pre_objects |-> s3_objects,
                              last |-> "begun", clean |-> TRUE]
                /\ v_pc' = "persist"
                /\ v_result' = NoAddResult
    /\ s_result' = NoSearchResult
    /\ UNCHANGED s3_objects

\* mutant: a failed put_object leaves the memory as the call wrote it
AddVectorPersist_NoRollback ==
    /\ v_pc = "persist"
    /\ \E put_ok \in BOOLEAN :
         IF put_ok
         THEN /\ s3_objects' = MapSet(s3_objects, <<v_call.dimension, v_call.id>>,
                                      Object(v_call.id, v_call.vector, v_call.metadata))
              /\ v_result' = [call |-> TRUE, out |-> Ret(TRUE)]
              /\ v_hist' = [v_hist EXCEPT !.last = "stored"]
         ELSE /\ v_result' = [call |-> TRUE,
                               out |-> Raise(<<"Failed to save vector to S3: ",
                                               "put_object failed">>, FALSE)]
              /\ v_hist' = [v_hist EXCEPT !.last = "persist_failed"]
              /\ UNCHANGED s3_objects
    /\ v_pc' = "idle"
    /\ v_call' = NoCall
    /\ s_result' = NoSearchResult
    /\ UNCHANGED <<vectors_by_dimension, metadata>>

\* add_vector from put_object on: the object is stored, or the id is removed from
\* the shard and from the metadata and the call raises
AddVectorPersist ==
    /\ v_pc = "persist"
    /\ \E put_ok \in BOOLEAN :
         IF put_ok
         THEN /\ s3_objects' = MapSet(s3_objects, <<v_call.dimension, v_call.id>>,
                                      Object(v_call.id, v_call.vector, v_call.metadata))
              /\ v_result' = [call |-> TRUE, out |-> Ret(TRUE)]
              /\ v_hist' = [v_hist EXCEPT !.last = "stored"]
              /\ UNCHANGED <<vectors_by_dimension, metadata>>
         ELSE /\ vectors_by_dimension' =
                     [vectors_by_dimension EXCEPT ![v_call.dimension] = DictDel(@, v_call.id)]
              /\ metadata' = MapDel(metadata, v_call.id)
              /\ v_result' = [call |-> TRUE,
                               out |-> Raise(<<"Failed to save vector to S3: ",
                                               "put_object failed">>, FALSE)]
              /\ v_hist' = [v_hist EXCEPT !.last = "persist_failed"]
              /\ UNCHANGED s3_objects
    /\ v_pc' = "idle"
    /\ v_call' = NoCall
    /\ s_result' = NoSearchResult

\* the outcomes of the S3 reads of a search: there are none unless it loads
S3Outcomes(query_vector, target_dimension) ==
    IF /\ target_dimension = Absent \/ target_dimension = Some(query_vector.len)
       /\ query_vector.len \in Dimensions
       /\ vectors_by_dimension[query_vector.len] = <<>>
    THEN BOOLEAN ELSE {TRUE}

\* a search call, which may run between the two halves of an add_vector; the
\* result of the call before it has been consumed
SearchCall(query_vector, top_k, target_dimension) ==
    /\ \E s3_ok \in S3Outcomes(query_vector, target_dimension) :
         LET r == Search(Memory, s3_objects, query_vector, top_k, target_dimension, s3_ok)
         IN  /\ vectors_by_dimension' = r.mem.shards
             /\ metadata' = r.mem.metadata
             /\ s_result' = [call |-> TRUE, query_vector |-> query_vector,
                              query_len |-> query_vector.len,
                              top_k |-> top_k, target_dimension |-> target_dimension,
                              out |-> r.out, searched |-> r.searched,
                              hydrated |-> r.hydrated]
             /\ v_hist' = IF v_pc = "persist"
                          THEN [v_hist EXCEPT !.clean = @ /\ r.mem = Memory]
                          ELSE NoStoreHistory
    /\ v_result' = NoAddResult
    /\ UNCHANGED <<s3_objects, v_pc, v_call>>

\* a detect_vector_dimension call, which may run between the two halves of an
\* add_vector; the bucket is listed only when the memory is empty
DetectCall ==
    /\ \E fail_at \in IF \E d \in Dimensions : vectors_by_dimension[d] # <<>>
                      THEN {0} ELSE 0..Len(DimensionOrder) :
         d_result' = [call |-> TRUE,
                      dimension |-> DetectVectorDimension(vectors_by_dimension,
                                                          s3_objects, fail_at),
                      list_failed |-> fail_at # 0]
    /\ v_result' = NoAddResult
    /\ s_result' = NoSearchResult
    /\ v_hist' = IF v_pc = "persist" THEN v_hist ELSE NoStoreHistory
    /\ UNCHANGED <<vectors_by_dimension, metadata, s3_objects, v_pc, v_call>>

(***************************************************************************)
(* Text upload and search over the S3 Vectors index: app.upload_file and    *)
(* app.search with vector_search = S3VectorSearch()                         *)
(***************************************************************************)
VARIABLES
    r_resp        \* the last response of /api/search, with the request it answers

rvars == <<r_resp>>

DocIds == {"doc1", "doc2"}
QueryTexts == {"", " ", "q"}
TopKs == {1, DefaultTopK}
SearchDimensions == {Absent, Some(256), Some(1024), Some(512)}

\* str.strip() on the query texts sent
Strip(text) == IF text = " " THEN "" ELSE text

\* the methods S3VectorSearch defines
S3VectorSearchMethods == {"__init__", "_ensure_setup", "add_vector", "search", "delete_vector"}

\* what a request answers with: the HTTP code, the 'error' text or the results
SearchResponse(code, error, results, dimension) ==
    [code |-> code, error |-> error, results |-> results, search_dimension |-> dimension]

\* what the index may answer to query_vectors: at most max_results of its vectors,
\* nearest first, with their distances
QueryHits(index, max_results) ==
    {h \in SeqsUpTo(DOMAIN index, Min(max_results, Cardinality(DOMAIN index))) :
        \A i, k \in 1..Len(h) : i # k => h[i] # h[k]}
QueryVectors(hits) ==
    [i \in 1..Len(hits) |-> [VectorId |-> hits[i], Distance |-> i - 1]]

\* S3VectorSearch.search: the vectors found as {id, similarity, metadata}, and
\* the empty list when the query fails
S3Search(hits, query_ok) ==
    IF ~query_ok THEN <<>>
    ELSE LET results == QueryVectors(hits)
         IN  [i \in 1..Len(results) |->
                 [id |-> results[i].VectorId,
                  similarity |-> 1 - results[i].Distance,
                  metadata |-> results[i].VectorId]]

\* vector_search.detect_vector_dimension(): an attribute S3VectorSearch lacks
AutoDetect ==
    IF "detect_vector_dimension" \in S3VectorSearchMethods
    THEN Ret(DefaultDimension)
    ELSE Raise("'S3VectorSearch' object has no attribute 'detect_vector_dimension'", 0)

\* the handler of /api/search
AppSearch(query_text, top_k, search_dimension, embed_ok, hits, query_ok) ==
    IF Strip(query_text) = ""
    THEN SearchResponse(400, Some("Query text is required"), <<>>, Absent)
    ELSE IF search_dimension # Absent /\ search_dimension[1] \notin Dimensions
    THEN SearchResponse(400, Some("Invalid search dimension"), <<>>, Absent)
    ELSE LET detected == IF search_dimension # Absent THEN Ret(search_dimension[1])
                         ELSE AutoDetect
         IN  IF detected.raised
             THEN SearchResponse(500, Some(detected.error), <<>>, Absent)
             ELSE IF ~embed_ok
             THEN SearchResponse(500, Some("Failed to generate query embedding"),
                                 <<>>, Absent)
             ELSE SearchResponse(200, Absent, S3Search(hits, query_ok),
                                 Some(detected.value))

NoRequest == [query |-> "", top_k |-> 0, search_dimension |-> Absent]
NoApiResponse == [call |-> FALSE, request |-> NoRequest,
                  response |-> SearchResponse(0, Absent, <<>>, Absent)]

SearchIdle == r_resp = NoApiResponse

\* upload_file for a text file: the embedding is generated and, when it is not
\* empty or all zeros, put in the index under the new file id
UploadText(f, dimension) ==
    /\ f \notin DOMAIN s3_vectors
    /\ \E embed_ok \in BOOLEAN, zero \in BOOLEAN, put_ok \in BOOLEAN :
         LET embedding == IF zero THEN V(dimension, <<>>) ELSE V(dimension, <<1>>)
         IN  IF embed_ok /\ AnyNonZero(embedding) /\ ~S3AddVector(embedding, put_ok).raised
             THEN s3_vectors' = [g \in DOMAIN s3_vectors \cup {f} |->
                                    IF g = f THEN embedding ELSE s3_vectors[g]]
             ELSE UNCHANGED s3_vectors
    /\ UNCHANGED r_resp

\* a request to /api/search
SearchRequest(query_text, top_k, search_dimension) ==
    /\ \E embed_ok \in BOOLEAN, query_ok \in BOOLEAN,
          hits \in QueryHits(s3_vectors, top_k) :
         r_resp' = [call |-> TRUE,
                    request |-> [query |-> query_text, top_k |-> top_k,
                                 search_dimension |-> search_dimension],
                    response |-> AppSearch(query_text, top_k, search_dimension,
                                           embed_ok, hits, query_ok)]
    /\ UNCHANGED s3_vectors

(***************************************************************************)
(* The two cosine similarity functions, applied to a pair of vectors        *)
(***************************************************************************)
VARIABLES
    c_pc,         \* "call" before the two functions are applied, "done" after
    c_vec1,       \* the first argument
    c_vec2,       \* the second argument
    c_hx,         \* what HighlightExtractor.cosine_similarity returned or raised
    c_dvs         \* what DimensionAwareVectorSearch.cosine_similarity returned or raised

cvars == <<c_pc, c_vec1, c_vec2, c_hx, c_dvs>>

CosineVectors ==
    {V(2, <<>>), V(2, <<1>>), V(2, <<0, 1>>), V(2, <<3, 4>>), V(2, <<-1>>),
     V(2, <<1, 1>>), NaNVec(2), V(256, <<>>), V(256, <<1>>), V(256, <<0, 2>>),
     V(1024, <<>>), V(1024, <<3, 4>>)}

NoCosine == Ret(SimZero)

CosineIdle ==
    /\ c_pc = "off"
    /\ c_vec1 = NullVec
    /\ c_vec2 = NullVec
    /\ c_hx = NoCosine
    /\ c_dvs = NoCosine

CosineInputs ==
    /\ c_pc = "call"
    /\ c_vec1 \in CosineVectors
    /\ c_vec2 \in CosineVectors
    /\ c_hx = NoCosine
    /\ c_dvs = NoCosine

\* both functions are applied to the pair; np.dot raises on unequal lengths
CosineCall ==
    /\ c_pc = "call"
    /\ c_hx' = IF c_vec1.len # c_vec2.len
               THEN Raise(<<"shapes not aligned">>, SimNaN)
               ELSE Ret(HxCosine(c_vec1, c_vec2))
    /\ c_dvs' = DvsCosine(c_vec1, c_vec2)
    /\ c_pc' = "done"
    /\ UNCHANGED <<c_vec1, c_vec2>>

(***************************************************************************)
(* app.upload_file: the file saved locally, sent to S3, embedded, removed    *)
(***************************************************************************)
UploadRequests == {"u1", "u2"}
LocalNames == {"notes", "clip"}
UploadTypes == {"text", "video"}
NoContent == ""

\* what the client of request r uploads
OwnContent(r) == IF r = "u1" THEN "content of u1" ELSE "content of u2"

VARIABLES
    local_files,  \* the upload folder: secure_filename -> content (NoContent: no file)
    u_pc,         \* where each upload request stands
    u_req,        \* its secure_filename and file type
    u_sent,       \* the content it sent to S3 under its own file key
    u_embedded    \* the content whose embedding it stored under its file id

uvars == <<local_files, u_pc, u_req, u_sent, u_embedded>>

NoUploadRequest == [filename |-> "", file_type |-> ""]

LocalIdle ==
    /\ local_files = [n \in LocalNames |-> NoContent]
    /\ u_pc = [r \in UploadRequests |-> "idle"]
    /\ u_req = [r \in UploadRequests |-> NoUploadRequest]
    /\ u_sent = [r \in UploadRequests |-> NoContent]
    /\ u_embedded = [r \in UploadRequests |-> NoContent]

LocalPath(r) == u_req[r].filename

\* local_path = UPLOAD_FOLDER/filename; file.save(local_path)
SaveLocal(r, filename, file_type) ==
    /\ u_pc[r] = "idle"
    /\ u_req' = [u_req EXCEPT ![r] = [filename |-> filename, file_type |-> file_type]]
    /\ local_files' = [local_files EXCEPT ![filename] = OwnContent(r)]
    /\ u_pc' = [u_pc EXCEPT ![r] = "s3"]
    /\ UNCHANGED <<u_sent, u_embedded>>

\* open(local_path, 'rb') and s3_handler.upload_file; any exception, a missing file
\* included, is logged and the request goes on with a local:// url
SendToS3(r) ==
    /\ u_pc[r] = "s3"
    /\ \E s3_ok \in BOOLEAN :
         u_sent' = [u_sent EXCEPT ![r] =
                       IF s3_ok /\ local_files[LocalPath(r)] # NoContent
                       THEN local_files[LocalPath(r)] ELSE @]
    /\ u_pc' = [u_pc EXCEPT ![r] = "embed"]
    /\ UNCHANGED <<local_files, u_req, u_embedded>>

\* the embedding: a text file is read from local_path and its vector stored; a
\* video is embedded by the service from its S3 url, and the request returns
\* without removing the local file
Embed(r) ==
    /\ u_pc[r] = "embed"
    /\ \E service_ok \in BOOLEAN :
         LET read == IF u_req[r].file_type = "text" THEN local_files[LocalPath(r)]
                     ELSE u_sent[r]
         IN  IF service_ok /\ read # NoContent
             THEN /\ u_embedded' = [u_embedded EXCEPT ![r] = read]
                  /\ u_pc' = [u_pc EXCEPT ![r] = IF u_req[r].file_type = "text"
                                                THEN "cleanup" ELSE "done"]
             ELSE /\ u_pc' = [u_pc EXCEPT ![r] = "error"]
                  /\ UNCHANGED u_embedded
    /\ UNCHANGED <<local_files, u_req, u_sent>>

\* os.remove(local_path); its exception is logged
CleanUp(r) ==
    /\ u_pc[r] = "cleanup"
    /\ local_files' = [local_files EXCEPT ![LocalPath(r)] = NoContent]
    /\ u_pc' = [u_pc EXCEPT ![r] = "done"]
    /\ UNCHANGED <<u_req, u_sent, u_embedded>>

(***************************************************************************)
(* HighlightExtractor._generate_segmented_embeddings_s3: reading the JSONL   *)
(* file of segment embeddings                                                *)
(***************************************************************************)
max_retries == 3
first_retry_delay == 2
MaxJsonLines == 2

\* a line of the result file: one that json.loads rejects, a segment with its
\* embedding, or a JSON object without an 'embedding' key
NoEmbedding == 0
JsonLines ==
    {[json |-> TRUE, embedding |-> 1], [json |-> TRUE, embedding |-> 2],
     [json |-> TRUE, embedding |-> NoEmbedding], [json |-> FALSE, embedding |-> NoEmbedding]}
JsonlBodies == UNION {[1..n -> JsonLines] : n \in 1..MaxJsonLines}

VARIABLES
    j_pc,           \* "read": in the retry loop; "returned" / "raised": the call ended
    j_attempt,      \* attempt of the for loop
    j_retry_delay,  \* retry_delay
    j_embeddings,   \* embeddings, created before the loop
    j_slept,        \* the time.sleep calls made, in order
    j_body          \* the lines the last attempt read

jvars == <<j_pc, j_attempt, j_retry_delay, j_embeddings, j_slept, j_body>>

JsonlInit ==
    /\ j_pc = "read"
    /\ j_attempt = 0
    /\ j_retry_delay = first_retry_delay
    /\ j_embeddings = <<>>
    /\ j_slept = <<>>
    /\ j_body = <<>>

\* the lines before the first one json.loads raises on
RECURSIVE ParsedPrefix(_)
ParsedPrefix(body) ==
    IF body = <<>> \/ ~Head(body).json THEN <<>>
    ELSE <<Head(body)>> \o ParsedPrefix(Tail(body))

\* embeddings.append({'embedding': ...}) for each line with an 'embedding' key
AppendSegments(embeddings, lines) ==
    embeddings \o SelectSeq(lines, LAMBDA l : l.embedding # NoEmbedding)

\* the except branch: sleep and double the delay, or raise after the last attempt
ReadError ==
    IF j_attempt < max_retries - 1
    THEN /\ j_slept' = Append(j_slept, j_retry_delay)
         /\ j_retry_delay' = j_retry_delay * 2
         /\ j_attempt' = j_attempt + 1
         /\ j_pc' = "read"
    ELSE /\ j_pc' = "raised"
         /\ UNCHANGED <<j_slept, j_retry_delay, j_attempt>>

\* get_object, iter_chunks or decode raises: nothing was parsed
ReadFails ==
    /\ j_pc = "read"
    /\ ReadError
    /\ UNCHANGED <<j_embeddings, j_body>>

\* the file is read and parsed line by line, each segment appended as it is
\* parsed; a line that does not parse raises with the earlier ones appended
ReadParses(body) ==
    /\ j_pc = "read"
    /\ j_body' = body
    /\ j_embeddings' = AppendSegments(j_embeddings, ParsedPrefix(body))
    /\ IF \E i \in DOMAIN body : ~body[i].json
       THEN ReadError
       ELSE /\ j_pc' = "returned"
            /\ UNCHANGED <<j_slept, j_retry_delay, j_attempt>>

(***************************************************************************)
(* Specifications                                                           *)
(***************************************************************************)
vars == <<mvars, hvars, avars, svars, rvars, cvars, uvars, jvars>>

NextPipeline ==
    /\ UNCHANGED <<mvars, avars, svars, rvars, cvars, uvars, jvars>>
    /\ \E j \in JobIds :
         \/ SubmitHighlight(j) /\ UNCHANGED h_resp
         \/ \E k \in Stages : StageBegin(j, k) /\ UNCHANGED h_resp
         \/ Stage1Call(j) /\ UNCHANGED h_resp
         \/ Stage2Call(j) /\ UNCHANGED h_resp
         \/ Stage3Call(j) /\ UNCHANGED h_resp
         \/ Stage4Call(j) /\ UNCHANGED h_resp
         \/ Stage5Call(j) /\ UNCHANGED h_resp
         \/ Stage6Call(j) /\ UNCHANGED h_resp
         \/ Finish(j) /\ UNCHANGED h_resp
         \/ FailStatus(j) /\ UNCHANGED h_resp
         \/ FailError(j) /\ UNCHANGED h_resp
         \/ GetJobStatus(j)
         \/ DownloadHighlight(j)

InitPipeline == PipelineInit /\ MatchIdle /\ UploadInit /\ StoreUnused /\ SearchIdle /\ CosineIdle /\ LocalIdle /\ JsonlInit
SpecPipeline == InitPipeline /\ [][NextPipeline]_vars

NextMatch == MatchCall /\ UNCHANGED <<hvars, avars, svars, rvars, cvars, uvars, jvars>>
InitMatch == MatchInputs /\ PipelineInit /\ UploadInit /\ StoreUnused /\ SearchIdle /\ CosineIdle /\ LocalIdle /\ JsonlInit
SpecMatch == InitMatch /\ [][NextMatch]_vars

NextUpload ==
    /\ UNCHANGED <<mvars, hvars, svars, rvars, cvars, uvars, jvars>>
    /\ \E f \in FileIds :
         \/ UploadAsync(f)
         \/ ServiceCompletes(f)
         \/ ServiceFails(f)
         \/ WaitPoll(f)
         \/ WaitSleep(f)
         \/ FetchAndStore(f)
         \/ WatcherWriteStatus(f)
         \/ WatcherWriteDetail(f)
         \/ QueryBegin(f)
         \/ QueryPoll(f)
         \/ QueryWriteStatus(f)
         \/ QueryWriteError(f)
         \/ QueryRespond(f)

InitUpload == UploadInit /\ MatchIdle /\ PipelineInit /\ StoreUnused /\ SearchIdle /\ CosineIdle /\ LocalIdle /\ JsonlInit
SpecUpload == InitUpload /\ [][NextUpload]_vars

NextStore ==
    /\ UNCHANGED <<mvars, hvars, avars, rvars, cvars, uvars, jvars, l_hist>>
    /\ \/ (\E c \in AddCalls : AddVectorBegin(c[1], c[2], c[3]))
            /\ d_result' = NoDetectResult
       \/ AddVectorPersist /\ d_result' = NoDetectResult
       \/ (\E c \in SearchCalls : SearchCall(c[1], c[2], c[3]))
            /\ d_result' = NoDetectResult
       \/ DetectCall

InitStore == StoreInit /\ MatchIdle /\ PipelineInit /\ UploadInit /\ SearchIdle /\ CosineIdle /\ LocalIdle /\ JsonlInit
SpecStore == InitStore /\ [][NextStore]_vars

\* the searches and inserts of one process, with the loads the searches make counted
MaxSearches == 2
HydrateAdds == {<<"b", V(256, <<1, 1>>), "m1">>}
HydrateSearches == {<<V(256, <<1, 0>>), 1, Absent>>, <<V(384, <<1>>), 1, Absent>>}

\* the search that has just returned is added to the history of the shard it read
RecordAccess ==
    l_hist' = IF s_result'.searched = Absent THEN l_hist
              ELSE LET d == s_result'.searched[1]
                       h == l_hist[d]
                   IN  [l_hist EXCEPT ![d] =
                          [searches |-> h.searches + 1,
                           loads |-> h.loads + (IF s_result'.hydrated THEN 1 ELSE 0),
                           first_loaded |-> IF h.searches = 0 THEN s_result'.hydrated
                                            ELSE h.first_loaded]]

NextHydrate ==
    /\ UNCHANGED <<mvars, hvars, avars, rvars, cvars, uvars, jvars>>
    /\ d_result' = NoDetectResult
    /\ \/ (\E c \in HydrateAdds : AddVectorBegin(c[1], c[2], c[3])) /\ UNCHANGED l_hist
       \/ AddVectorPersist /\ UNCHANGED l_hist
       \/ \E c \in HydrateSearches :
             /\ l_hist[c[1].len].searches < MaxSearches
             /\ SearchCall(c[1], c[2], c[3])
             /\ RecordAccess

SpecHydrate == InitStore /\ [][NextHydrate]_vars

NextSearch ==
    /\ UNCHANGED <<mvars, hvars, svars, cvars, uvars, jvars>>
    /\ UNCHANGED <<async_jobs, invocations, a_pc, a_elapsed, a_local, a_hist,
                   q_pc, q_local, q_resp>>
    /\ \/ \E f \in DocIds, dimension \in Dimensions : UploadText(f, dimension)
       \/ \E query_text \in QueryTexts, top_k \in TopKs,
             search_dimension \in SearchDimensions :
             SearchRequest(query_text, top_k, search_dimension)

InitSearch == SearchIdle /\ UploadInit /\ MatchIdle /\ PipelineInit /\ StoreUnused /\ CosineIdle /\ LocalIdle /\ JsonlInit
SpecSearch == InitSearch /\ [][NextSearch]_vars

\* one of MatchEnvs(analysis) under which match_clips ends before any sorting: the
\* embedding of the last point fails, or there is no point at all
QuickEnv(analysis) == <<Len(ParsePoints(analysis)), TRUE>>

\* a step of the worker thread of highlight job j; the first stage-5 disjunct is an
\* instance of Stage5Call, listed so that the enabledness of the step is decided
\* without running the whole matching
WorkerStep(j) ==
    /\ \/ \E k \in Stages : StageBegin(j, k)
       \/ Stage1Call(j)
       \/ Stage2Call(j)
       \/ Stage3Call(j)
       \/ Stage4Call(j)
       \/ h_pc[j] = At("call", 5) /\ Stage5With(j, QuickEnv(h_local[j].analysis))
       \/ Stage5Call(j)
       \/ Stage6Call(j)
       \/ Finish(j)
       \/ FailStatus(j)
       \/ FailError(j)
    /\ UNCHANGED <<h_resp, mvars, avars, svars, rvars, cvars, uvars, jvars>>

\* a step of the watcher thread of upload f
WatcherStep(f) ==
    /\ \/ WaitPoll(f)
       \/ WaitSleep(f)
       \/ FetchAndStore(f)
       \/ WatcherWriteStatus(f)
       \/ WatcherWriteDetail(f)
    /\ UNCHANGED <<mvars, hvars, svars, rvars, cvars, uvars, jvars>>

NoHighlightJob == highlight_jobs = <<>> /\ h_resp = [j \in JobIds |-> NoJobResponse]
NoUpload == async_jobs = <<>>

\* the outcomes the service is given here: a usable result file, a file without
\* embeddings, and a failure with or without its message
LiveFiles == {ResultFile("embeddings", "", <<Seg(V(1024, <<1, 2>>)), Seg(V(1024, <<>>))>>),
              ResultFile("other", "", <<>>)}
LiveMessages == {Absent, Some("model error")}

\* the upload with its watcher, the service and the status requests
NextLiveUpload ==
    /\ UNCHANGED <<mvars, hvars, svars, rvars, cvars, uvars, jvars>>
    /\ \E f \in FileIds :
         \/ UploadAsync(f)
         \/ ServiceCompletes(f) /\ invocations'[f].file \in LiveFiles
         \/ ServiceFails(f) /\ invocations'[f].failureMessage \in LiveMessages
         \/ WaitPoll(f)
         \/ WaitSleep(f)
         \/ FetchAndStore(f)
         \/ WatcherWriteStatus(f)
         \/ WatcherWriteDetail(f)
         \/ QueryBegin(f)
         \/ QueryPoll(f)
         \/ QueryWriteStatus(f)
         \/ QueryWriteError(f)
         \/ QueryRespond(f)

\* one job is submitted, a highlight job or an upload (the two kinds of job share
\* no variable); its thread is scheduled fairly, and the requests and the service
\* act as they like
NextLive ==
    \/ NoUpload /\ NextPipeline
    \/ NoHighlightJob /\ NextLiveUpload

SpecLive ==
    /\ InitPipeline
    /\ [][NextLive]_vars
    /\ \A j \in JobIds : WF_vars(WorkerStep(j))
    /\ \A f \in FileIds : WF_vars(WatcherStep(f))

NextCosine == CosineCall /\ UNCHANGED <<mvars, hvars, avars, svars, rvars, uvars, jvars>>
InitCosine ==
    CosineInputs /\ MatchIdle /\ PipelineInit /\ UploadInit /\ StoreUnused /\ SearchIdle /\ LocalIdle /\ JsonlInit
SpecCosine == InitCosine /\ [][NextCosine]_vars

\* two upload requests, each saving, sending, embedding and cleaning up its file
NextLocal ==
    /\ \E r \in UploadRequests :
         \/ \E filename \in LocalNames, file_type \in UploadTypes :
              SaveLocal(r, filename, file_type)
         \/ SendToS3(r)
         \/ Embed(r)
         \/ CleanUp(r)
    /\ UNCHANGED <<mvars, hvars, avars, svars, rvars, cvars, jvars>>
InitLocal ==
    LocalIdle /\ JsonlInit /\ MatchIdle /\ PipelineInit /\ UploadInit /\ StoreUnused /\ SearchIdle /\ CosineIdle
SpecLocal == InitLocal /\ [][NextLocal]_vars

\* one call reading the JSONL result file, whose reads fail or return any body
NextJsonl ==
    /\ \/ ReadFails
       \/ \E body \in JsonlBodies : ReadParses(body)
    /\ UNCHANGED <<mvars, hvars, avars, svars, rvars, cvars, uvars>>
InitJsonl ==
    JsonlInit /\ LocalIdle /\ MatchIdle /\ PipelineInit /\ UploadInit /\ StoreUnused
    /\ SearchIdle /\ CosineIdle
SpecJsonl == InitJsonl /\ [][NextJsonl]_vars

(***************************************************************************)
(* Claims                                                                   *)
(***************************************************************************)
\* the artifact key of the job record that stage i writes
ArtifactOf(job, i) ==
    CASE i = 1 -> job.criteria
      [] i = 2 -> job.compressed_path
      [] i = 3 -> job.analysis
      [] i = 4 -> job.clips
      [] i = 5 -> job.clips
      [] i = 6 -> job.highlight_video_path

\* the last stage before k that wrote the key stage i writes
LastWriter(i, k) == IF i = 4 /\ k = 6 THEN 5 ELSE i

\* a job whose stage-k call raised and whose worker thread has returned
EndedByRaise(j, k) == h_hist[j].raised_at = k /\ h_pc[j] = At("done", k)

FailedAt(j, k) ==
    /\ Job(j).status = "failed"
    /\ Job(j).current_step = k
    /\ Job(j).error # Absent
    /\ Job(j).error[1] # ""

\* C1 as stated: a job whose stage-k call (k in 3..6) raised ends failed at step k
\* with a non-empty error, runs no later stage, and still holds unchanged the
\* artifact every stage before k recorded (criteria, compressed path, analysis,
\* clips)
C1_ArtifactsOfEveryEarlierStage ==
    \A j \in JobIds : \A k \in 3..6 :
        /\ h_hist[j].raised_at = k => h_hist[j].started \subseteq 1..k
        /\ EndedByRaise(j, k) =>
              /\ FailedAt(j, k)
              /\ \A i \in 1..Min(k - 1, 4) :
                    /\ h_hist[j].recorded[i] # Absent
                    /\ ArtifactOf(Job(j), i) = h_hist[j].recorded[i]

\* C1 (amended): a job whose stage-k call (k in 3..6) raised ends failed at step k
\* with a non-empty error, runs no later stage, and each artifact key written
\* before stage k holds the value last written to it before stage k: criteria,
\* compressed path and analysis as stages 1 to 3 recorded them, and clips as
\* stage 4 recorded it when k = 5 but as stage 5 rewrote it when k = 6
C1_ArtifactsAsLastRecorded ==
    \A j \in JobIds : \A k \in 3..6 :
        /\ h_hist[j].raised_at = k => h_hist[j].started \subseteq 1..k
        /\ EndedByRaise(j, k) =>
              /\ FailedAt(j, k)
              /\ \A i \in 1..Min(k - 1, 4) :
                    /\ h_hist[j].recorded[LastWriter(i, k)] # Absent
                    /\ ArtifactOf(Job(j), i) = h_hist[j].recorded[LastWriter(i, k)]

\* stage 6 raised after stage 5 had rewritten the clips of stage 4
C1_Witness ==
    \E j \in JobIds :
        /\ EndedByRaise(j, 6)
        /\ h_hist[j].recorded[4] # Some(<<>>)
        /\ Job(j).clips # h_hist[j].recorded[4]

\* C2: when the generative call of stage 1 fails the job does not fail: the
\* default criterion is the job's criteria and the worker is at stage 2 or
\* beyond, the job still processing while stage 2 runs
C2_Stage1FailureAbsorbed ==
    \A j \in JobIds :
        1 \in h_hist[j].ext_failed =>
            /\ h_hist[j].raised_at # 1
            /\ Job(j).criteria = Some(DefaultCriteria)
            /\ h_pc[j].stage >= 2
            /\ h_pc[j].stage = 2 => Job(j).status = "processing"
            /\ h_pc[j] = At("call", 2) => Job(j).current_step = 2

C2_Witness ==
    \E j \in JobIds :
        /\ 1 \in h_hist[j].ext_failed
        /\ h_pc[j] = At("call", 2)
        /\ Job(j).status = "processing"

\* C3 as stated: a job whose stage-1 call threw ends failed with current step 1
\* and a non-empty default criterion in its record
C3_Stage1FailureFailsJob ==
    \A j \in JobIds :
        (1 \in h_hist[j].ext_failed /\ h_pc[j].at = "done") =>
            /\ Job(j).status = "failed"
            /\ Job(j).current_step = 1
            /\ Job(j).criteria # Absent
            /\ Job(j).criteria[1] # ""

\* C3 (amended): a job whose stage-1 call threw has a non-empty default criterion
\* in its record and is never failed with current step 1
C3_Stage1FailureNeverFailsAtStep1 ==
    \A j \in JobIds :
        1 \in h_hist[j].ext_failed =>
            /\ Job(j).criteria # Absent
            /\ Job(j).criteria[1] # ""
            /\ ~(Job(j).status = "failed" /\ Job(j).current_step = 1)

C3_Witness ==
    \E j \in JobIds :
        /\ 1 \in h_hist[j].ext_failed
        /\ h_pc[j].at = "done"
        /\ Job(j).status = "failed"

\* every poll of the watcher returned, and none reported a finished invocation
PollsAlwaysInProgress(f) ==
    /\ invocations[f].status = "InProgress"
    /\ ~a_hist[f].poll_raised

InvalidPayload(result) ==
    \/ result.none
    \/ ~result.has_embeddings
    \/ result.embeddings = <<>>
    \/ \A i \in 1..Len(result.embeddings) :
          LET emb == result.embeddings[i]
          IN  \/ ~emb.has_embedding
              \/ emb.embedding.null
              \/ emb.embedding.len = 0
              \/ ~AnyNonZero(emb.embedding)

\* C5: when the invocation completed and the payload retrieved is invalid (no
\* embeddings container, an empty list, or only empty or all-zero vectors) the
\* watcher fails the job with a non-empty reason and stores no vector; and no
\* job is still processing once its watcher has returned
C5_InvalidPayloadFailsJob ==
    \A f \in FileIds :
        /\ (a_hist[f].retrieved # Absent /\ InvalidPayload(a_hist[f].retrieved[1])) =>
              /\ ~a_hist[f].add_called
              /\ f \notin DOMAIN s3_vectors
              /\ a_pc[f] \in {"write_status", "write_detail", "done"}
              /\ a_pc[f] \in {"write_detail", "done"} => async_jobs[f].status = "failed"
              /\ a_pc[f] = "done" =>
                    /\ async_jobs[f].error # Absent
                    /\ NonEmptyText(async_jobs[f].error[1])
        /\ a_pc[f] = "done" => async_jobs[f].status # "processing"

C5_Witness ==
    \E f \in FileIds :
        /\ a_pc[f] = "done"
        /\ a_hist[f].retrieved # Absent
        /\ a_hist[f].retrieved[1].has_embeddings
        /\ a_hist[f].retrieved[1].embeddings # <<>>
        /\ InvalidPayload(a_hist[f].retrieved[1])
        /\ async_jobs[f].status = "failed"

\* an add_vector call has just raised because put_object failed, and nothing
\* else touched the memory during the call
PersistJustFailed ==
    /\ v_pc = "idle"
    /\ v_hist.last = "persist_failed"
    /\ v_hist.clean

\* C6 as stated: when persisting fails the insert raises and the in-memory shards
\* and the metadata are exactly what they were before the call, a record with the
\* same id included
C6_FailedInsertRestoresMemory ==
    PersistJustFailed =>
        /\ v_result.out.raised
        /\ Memory = v_hist.pre

Durable(dimension, id) == <<dimension, id>> \in DOMAIN s3_objects
BeingInserted(dimension, id) ==
    v_pc = "persist" /\ v_call.dimension = dimension /\ v_call.id = id

\* C7 as stated: in every state every record of an in-memory shard is already in
\* durable storage under its dimension and id
C7_VisibleOnlyIfDurable ==
    \A d \in Dimensions : \A i \in 1..Len(vectors_by_dimension[d]) :
        Durable(d, vectors_by_dimension[d][i].id)

\* C7 (amended): every record of an in-memory shard is in durable storage under
\* its dimension and id, except the record of the insert in progress, which is
\* visible before it is persisted
C7_VisibleDurableOrBeingInserted ==
    \A d \in Dimensions : \A i \in 1..Len(vectors_by_dimension[d]) :
        \/ Durable(d, vectors_by_dimension[d][i].id)
        \/ BeingInserted(d, vectors_by_dimension[d][i].id)

\* a search that ran during an insert returned the record not yet persisted
C7_Witness ==
    /\ v_pc = "persist"
    /\ ~Durable(v_call.dimension, v_call.id)
    /\ s_result.call
    /\ ~s_result.out.raised
    /\ \E i \in 1..Len(s_result.out.value) : s_result.out.value[i].id = v_call.id

\* C10: a search with top_k >= 0 that returns, returns at most top_k results and
\* none with a similarity that is not a number
C10_SearchBoundedAndFinite ==
    (s_result.call /\ ~s_result.out.raised /\ s_result.top_k >= 0) =>
        /\ Len(s_result.out.value) <= s_result.top_k
        /\ \A i \in 1..Len(s_result.out.value) : ~s_result.out.value[i].similarity.nan

\* the shard searched held more records than top_k, one of them not a number
C10_Witness ==
    /\ s_result.call
    /\ ~s_result.out.raised
    /\ s_result.top_k = 1
    /\ Len(s_result.out.value) = 1
    /\ Len(vectors_by_dimension[256]) = 2
    /\ \E i \in 1..2 : vectors_by_dimension[256][i].vector.nan

\* C14 as stated: a status response that says failed carries a non-empty error,
\* whatever the interleaving of the request with the worker thread
C14_FailedResponseHasError ==
    \A j \in JobIds :
        (h_resp[j].kind = "status" /\ h_resp[j].status = "failed") =>
            /\ h_resp[j].error # Absent
            /\ h_resp[j].error[1] # ""

\* C15: download_highlight sends the file only for a completed job and answers
\* with an error for an unknown, processing or failed job; a completed job has
\* its output path recorded, progress 100 and current step 6
C15_DownloadOnlyWhenCompleted ==
    \A j \in JobIds :
        /\ h_resp[j].kind = "download" =>
              /\ h_resp[j].code = 200 =>
                    /\ h_resp[j].status = "completed"
                    /\ h_resp[j].file = Some(HighlightVideoPath)
              /\ h_resp[j].status # "completed" =>
                    /\ h_resp[j].code \in {400, 404}
                    /\ h_resp[j].file = Absent
                    /\ h_resp[j].error # Absent
        /\ (j \in DOMAIN highlight_jobs /\ Job(j).status = "completed") =>
              /\ Job(j).highlight_video_path = Some(HighlightVideoPath)
              /\ Job(j).progress = 100
              /\ Job(j).current_step = 6

\* the file of a completed job has been sent
C15_Witness ==
    \E j \in JobIds :
        /\ h_resp[j].kind = "download"
        /\ h_resp[j].code = 200
        /\ Job(j).status = "completed"

\* C16 as stated: with no add_vector in progress and no listing failing, the
\* dimension detected holds the most records of the bucket, and is 1024 when the
\* bucket is empty, whatever part of the bucket is loaded in memory
C16_DetectedIsMostPopulous ==
    (d_result.call /\ ~d_result.list_failed /\ v_pc = "idle") =>
        IF s3_objects = <<>>
        THEN d_result.dimension = DefaultDimension
        ELSE \A d \in Dimensions :
                CountObjects(s3_objects, d) <= CountObjects(s3_objects, d_result.dimension)

\* C17 as stated: a search request with a non-empty query text and no dimension
\* succeeds, answering with a list of results and not with an error
C17_SearchWithoutDimensionSucceeds ==
    (/\ r_resp.call
     /\ Strip(r_resp.request.query) # ""
     /\ r_resp.request.search_dimension = Absent) =>
        /\ r_resp.response.code = 200
        /\ r_resp.response.error = Absent

\* the analysis of job j has been produced and holds no labeled point
ZeroPoints(j) ==
    /\ h_hist[j].recorded[3] # Absent
    /\ ParsePoints(h_local[j].analysis) = <<>>

\* the stage-5 call of job j has ended
MatchingEnded(j) == h_hist[j].raised_at = 5 \/ h_hist[j].recorded[5] # Absent

\* C18 as stated: with zero labeled points in the analysis the matching call
\* raises, stage 6 is not started and the job ends failed with current step 5
C18_ZeroPointsFailAtMatching ==
    \A j \in JobIds :
        (ZeroPoints(j) /\ MatchingEnded(j)) =>
            /\ h_hist[j].raised_at = 5
            /\ 6 \notin h_hist[j].started
            /\ h_pc[j].at = "done" => FailedAt(j, 5)

\* C18 (amended): with zero labeled points in the analysis the matching call
\* returns an empty selection without raising, stage 5 records zero clips, and
\* the job ends failed with current step 6, stage 6 having been started and
\* create_highlight_video having refused the empty selection; no stage runs twice
C18_ZeroPointsFailAtStitching ==
    \A j \in JobIds :
        (ZeroPoints(j) /\ 5 \in h_hist[j].started) =>
            /\ h_hist[j].raised_at # 5
            /\ MatchingEnded(j) =>
                  /\ h_hist[j].recorded[5] = Some(<<>>)
                  /\ Job(j).clips_count = Some(0)
            /\ Job(j).status # "completed"
            /\ h_pc[j].at = "done" =>
                  /\ FailedAt(j, 6)
                  /\ 6 \in h_hist[j].started
                  /\ h_hist[j].raised_at = 6
                  /\ Job(j).error = Some("no selected clips to concatenate")

\* a job whose analysis held no labeled point has ended
C18_Witness ==
    \E j \in JobIds :
        /\ ZeroPoints(j)
        /\ h_local[j].analysis # <<>>
        /\ h_pc[j].at = "done"
        /\ Job(j).status = "failed"
        /\ Job(j).current_step = 6

\* C19 as stated: when the embedding call of one point fails, match_clips does not
\* raise and returns what the other points select
C19_PointEmbeddingFailureNotFatal ==
    LET points == ParsePoints(m_analysis)
        k == m_env[1]
    IN  (m_pc \in {"returned", "raised"} /\ k \in 1..Len(points)) =>
            LET others == FilteredClips(RemoveAt(points, k), m_clips)
            IN  /\ ~m_result.raised
                /\ m_result.value = [i \in 1..Len(others) |-> Materialize(others[i])]

\* C20: a job whose matching selected zero segments is never completed and has no
\* output video path recorded; when its worker ends it is failed with a
\* non-empty error
C20_NoSegmentsNeverCompleted ==
    \A j \in JobIds :
        h_hist[j].recorded[5] = Some(<<>>) =>
            /\ Job(j).status # "completed"
            /\ Job(j).highlight_video_path = Absent
            /\ h_hist[j].recorded[6] = Absent
            /\ h_pc[j].at = "done" =>
                  /\ Job(j).status = "failed"
                  /\ Job(j).error # Absent
                  /\ Job(j).error[1] # ""

\* a job with labeled points and no segment selected has ended
C20_Witness ==
    \E j \in JobIds :
        /\ h_hist[j].recorded[5] = Some(<<>>)
        /\ ParsePoints(h_local[j].analysis) # <<>>
        /\ h_pc[j].at = "done"
        /\ Job(j).status = "failed"

\* the invocation of upload f failed, and the watcher neither timed out nor had a
\* poll raise: an error on the job comes from the remote failure
RemoteFailureObserved(f) ==
    /\ invocations[f].status = "Failed"
    /\ ~a_hist[f].poll_raised
    /\ a_hist[f].outcome # "timeout"
    /\ f \in DOMAIN async_jobs

\* C21 as stated: when the invocation of an upload failed with the message m, the
\* error recorded on the job, and the error of every status response made since,
\* is m itself, whether the watcher or a status request saw the failure first
C21_RemoteFailureMessageVerbatim ==
    \A f \in FileIds :
        RemoteFailureObserved(f) =>
            LET m == Some(<<FailureMessage(invocations[f])>>)
            IN  /\ async_jobs[f].error # Absent => async_jobs[f].error = m
                /\ (q_resp[f].status = "failed" /\ q_resp[f].error # Absent) =>
                      q_resp[f].error = m

\* C22 as stated: once a job record exists, only the steps of the job's own
\* watcher thread change it; a status request changes no job record
C22_OnlyWatcherWritesJob ==
    [][\A f \in FileIds :
          (f \in DOMAIN async_jobs /\ async_jobs'[f] # async_jobs[f]) =>
              /\ a_pc[f] \in {"write_status", "write_detail"}
              /\ a_pc'[f] # a_pc[f]
              /\ q_pc'[f] = q_pc[f]]_vars

\* the vector has norm 0: all its components are 0
ZeroNorm(v) == ~v.nan /\ SumSq(v.head) = 0

\* C24 as stated: applied to two vectors of one length of which one has norm 0,
\* the cosine of the vector store and the cosine of the matching engine both
\* return 0, not NaN and not an error
C24_ZeroNormGivesZero ==
    (/\ c_pc = "done"
     /\ c_vec1.len = c_vec2.len
     /\ ZeroNorm(c_vec1) \/ ZeroNorm(c_vec2)) =>
        /\ c_dvs = Ret(SimZero)
        /\ c_hx = Ret(SimZero)

\* the dimensions in whose shard the id is present
ShardsOf(id) == {d \in Dimensions : DictHas(vectors_by_dimension[d], id)}

\* C25 as stated: with no add_vector in progress, every id is in at most one
\* shard, every vector in shard d has d components, and the metadata of an id
\* present in shard d records the dimension d
C25_OneShardPerId ==
    v_pc = "idle" =>
        /\ \A id \in Ids : Cardinality(ShardsOf(id)) <= 1
        /\ \A d \in Dimensions : \A i \in 1..Len(vectors_by_dimension[d]) :
              LET it == vectors_by_dimension[d][i]
              IN  /\ it.vector.len = d
                  /\ it.id \in DOMAIN metadata => metadata[it.id].dimension = d

\* C26: the stages of a job start in the order 1..6, each only after the stage
\* before it recorded its artifact; current_step is always in 1..6 and progress in
\* 0..100; and no step of any execution lowers current_step or progress
C26_StagesInOrderAndMonotonic ==
    /\ [](\A j \in DOMAIN highlight_jobs :
            /\ Job(j).current_step \in Stages
            /\ Job(j).progress \in 0..100
            /\ \A k \in h_hist[j].started :
                  /\ 1..k \subseteq h_hist[j].started
                  /\ \A i \in 1..(k - 1) : h_hist[j].recorded[i] # Absent
                  /\ k <= Job(j).current_step)
    /\ [][\A j \in DOMAIN highlight_jobs :
            /\ highlight_jobs'[j].current_step >= highlight_jobs[j].current_step
            /\ highlight_jobs'[j].progress >= highlight_jobs[j].progress
            /\ h_hist'[j].started \ h_hist[j].started \subseteq
                  {highlight_jobs[j].current_step, highlight_jobs[j].current_step + 1}]_vars

\* a job ran its six stages to the end
C26_Witness ==
    \E j \in JobIds :
        /\ h_pc[j] = At("done", 6)
        /\ h_hist[j].started = Stages
        /\ Job(j).status = "completed"
        /\ Job(j).progress = 100

C28_HydratedOnceOnFirstAccess ==
    \A d \in Dimensions :
        l_hist[d].searches >= 1 =>
            /\ l_hist[d].first_loaded
            /\ l_hist[d].loads = 1

\* the place of the id in the shard: the order in which the ids were inserted
PlaceIn(shard, id) == CHOOSE i \in 1..Len(shard) : shard[i].id = id

\* x and y are the same number
SimEq(x, y) == ~x.nan /\ ~y.nan /\ ~SimGT(x, y) /\ ~SimGT(y, x)

\* C29: a search with top_k >= 0 that returns, returns the records of the shard it
\* read in descending order of similarity, records of equal similarity in the
\* order of their insertion in the shard, as many as top_k allows, and no record
\* left out is more similar than one returned
C29_TopKDescendingStable ==
    (s_result.call /\ ~s_result.out.raised /\ s_result.top_k >= 0) =>
        LET r == s_result.out.value
            shard == vectors_by_dimension[s_result.searched[1]]
            all == Similarities(s_result.query_vector, shard, metadata)
            returned == {r[i].id : i \in 1..Len(r)}
        IN  /\ Len(r) = Min(s_result.top_k, Len(all))
            /\ \A i \in 1..Len(r) : DictHas(shard, r[i].id)
            /\ \A i, k \in 1..Len(r) :
                  i < k =>
                     /\ ~SimGT(r[k].similarity, r[i].similarity)
                     /\ SimEq(r[i].similarity, r[k].similarity) =>
                           PlaceIn(shard, r[i].id) < PlaceIn(shard, r[k].id)
            /\ \A n \in 1..Len(all) :
                  all[n].id \notin returned =>
                     \A i \in 1..Len(r) : ~SimGT(all[n].similarity, r[i].similarity)

\* two records of equal similarity were returned, the one inserted first being the
\* one with the greater id
C29_Witness ==
    /\ s_result.call
    /\ ~s_result.out.raised
    /\ Len(s_result.out.value) = 2
    /\ SimEq(s_result.out.value[1].similarity, s_result.out.value[2].similarity)
    /\ s_result.out.value[1].id = "b"
    /\ s_result.out.value[1].similarity.num > 0

\* the places in valid of the candidates whose similarity to the point is above
\* the threshold
AboveFor(point, valid) ==
    {k \in 1..Len(valid) : SimGT(HxCosine(point.emb, valid[k].embedding), Threshold)}

\* C30: in a call that returned, every point contributes Min(K, n) candidates, n
\* being the number of candidates with an embedding whose similarity to that point
\* is above the threshold; they are distinct, each carries that similarity and the
\* point, none left out is more similar than one kept; so the merged list has at
\* most K entries per point, and every segment returned is in it
C30_PerPointTopK ==
    m_pc = "returned" =>
        LET points == ParsePoints(m_analysis)
            valid == ValidClips(m_clips)
            merged == SelectedClips(points, valid)
        IN  /\ \A i \in 1..Len(points) :
                  LET c == TopClips(points[i], valid)
                      above == AboveFor(points[i], valid)
                      kept == {k \in above : \E n \in 1..Len(c) : c[n].index = valid[k].index}
                  IN  /\ Len(c) = Min(TopKPerPoint, Cardinality(above))
                      /\ Cardinality(kept) = Len(c)
                      /\ \A n \in 1..Len(c) :
                            /\ c[n].point = points[i].text
                            /\ \E k \in kept :
                                  /\ c[n].index = valid[k].index
                                  /\ c[n].similarity =
                                        HxCosine(points[i].emb, valid[k].embedding)
                      /\ \A k \in above \ kept : \A n \in 1..Len(c) :
                            ~SimGT(HxCosine(points[i].emb, valid[k].embedding),
                                   c[n].similarity)
            /\ Len(merged) <= TopKPerPoint * Len(points)
            /\ \A n \in 1..Len(m_result.value) :
                  \E k \in 1..Len(merged) : merged[k].index = m_result.value[n].index

\* a call returned in which a point had more than K candidates above the threshold
C30_Witness ==
    /\ m_pc = "returned"
    /\ \E i \in 1..Len(ParsePoints(m_analysis)) :
          LET point == ParsePoints(m_analysis)[i]
          IN  /\ Cardinality(AboveFor(point, ValidClips(m_clips))) > TopKPerPoint
              /\ Len(TopClips(point, ValidClips(m_clips))) = TopKPerPoint

\* the deduplicated selections of the call, in the order the overlap loop scans them
UniqueOf(analysis, clips) ==
    UniqueClips(SortByTimestamp(SelectedClips(ParsePoints(analysis), ValidClips(clips))), {})

\* the accepted list after the first k turns of the overlap loop
AcceptedAfter(unique, k) == FilterOverlap(Take(unique, k), <<>>)

SeqSet(s) == {s[i] : i \in 1..Len(s)}

\* C31: the deduplicated selections are scanned in ascending offset order; in each
\* turn the scanned segment is within the window of at most one accepted segment;
\* within the window of none, it is accepted and nothing else changes; within the
\* window of one, exactly one of the two stays accepted, the more similar one, the
\* accepted one on a tie
C31_OverlapTurn ==
    m_pc = "returned" =>
        LET unique == UniqueOf(m_analysis, m_clips)
        IN  /\ \A a, b \in 1..Len(unique) :
                  a < b => unique[a].timestamp <= unique[b].timestamp
            /\ \A k \in 1..Len(unique) :
                  LET before == AcceptedAfter(unique, k - 1)
                      after == AcceptedAfter(unique, k)
                      clip == unique[k]
                      hits == {i \in 1..Len(before) : Overlaps(clip, before[i])}
                  IN  /\ Cardinality(hits) <= 1
                      /\ hits = {} => after = Append(before, clip)
                      /\ \A i \in hits :
                            LET wins == SimGT(clip.similarity, before[i].similarity)
                            IN  /\ Len(after) = Len(before)
                                /\ SeqSet(after) =
                                      (SeqSet(before) \ {before[i]}) \cup
                                          {IF wins THEN clip ELSE before[i]}
                                /\ (clip \in SeqSet(after)) = wins
                                /\ (before[i] \in SeqSet(after)) = ~wins

\* a call returned in which the loop met a more similar scanned segment, a less
\* similar one or a tie, and a segment overlapping nothing accepted before it
C31_Witness ==
    /\ m_pc = "returned"
    /\ LET unique == UniqueOf(m_analysis, m_clips)
       IN  /\ \E k \in 1..Len(unique) :
                 \E i \in 1..Len(AcceptedAfter(unique, k - 1)) :
                    LET acc == AcceptedAfter(unique, k - 1)[i]
                    IN  /\ Overlaps(unique[k], acc)
                        /\ SimEq(unique[k].similarity, acc.similarity)
           /\ \E k \in 2..Len(unique) :
                 /\ AcceptedAfter(unique, k - 1) # <<>>
                 /\ \A i \in 1..Len(AcceptedAfter(unique, k - 1)) :
                       ~Overlaps(unique[k], AcceptedAfter(unique, k - 1)[i])

\* C32: the candidates have no clip file when matching is called and keep none
\* (matching works on copies); ffmpeg is run only for segments of the final
\* selection, once for each of them; every segment the call returns has its file
C32_LazyMaterialization ==
    /\ \A i \in 1..Len(m_clips) : m_clips[i].path = NoPath
    /\ m_pc = "returned" =>
          LET final == FilteredClips(ParsePoints(m_analysis), m_clips)
              runs == Extractions(final)
              r == m_result.value
          IN  /\ \A a, b \in 1..Len(runs) : a # b => runs[a].index # runs[b].index
              /\ {runs[a].index : a \in 1..Len(runs)} = {final[a].index : a \in 1..Len(final)}
              /\ Len(r) = Len(final)
              /\ \A a \in 1..Len(r) :
                    /\ r[a].index = final[a].index
                    /\ r[a].path # NoPath
                    /\ r[a].path = ClipPath(r[a].index)

\* a call returned some segments and left out candidates that had an embedding
C32_Witness ==
    /\ m_pc = "returned"
    /\ Len(m_result.value) >= 2
    /\ Len(m_result.value) < Len(ValidClips(m_clips))

\* C33 as stated: the first status read or result read of the watcher that raises
\* does not end the job; the thread goes on to read again instead of leaving to
\* write the failure
C33_ReadFailureIsRetried ==
    [][\A f \in FileIds :
          (a_hist[f].outcome # "error" /\ a_hist'[f].outcome = "error")
              => a_pc'[f] # "write_status"]_vars

\* C34 as stated: of two deduplicated selections within the overlap window of each
\* other, the strictly less similar one is not in the list match_clips returns
C34_NoSurvivorNextToBetter ==
    m_pc = "returned" =>
        LET unique == UniqueOf(m_analysis, m_clips)
            kept == {m_result.value[i].index : i \in 1..Len(m_result.value)}
        IN  \A a, b \in 1..Len(unique) :
               (Overlaps(unique[a], unique[b])
                   /\ SimGT(unique[a].similarity, unique[b].similarity))
                   => unique[b].index \notin kept

\* the chain 0, 2, 4: the segment at 2 loses to the one at 0, and the one at 4, less
\* similar than the one at 2, is returned
C34_ChainKeepsWorse ==
    /\ m_pc = "returned"
    /\ m_clips = ChainClips
    /\ {m_result.value[i].timestamp : i \in 1..Len(m_result.value)} = {0, 4}

\* the places in points of the points whose top K hold the segment index
PointsSelecting(points, valid, index) ==
    {i \in 1..Len(points) :
        \E n \in 1..Len(TopClips(points[i], valid)) :
           TopClips(points[i], valid)[n].index = index}

\* C35: a segment selected by several points is kept once, as the copy of the
\* earliest of these points in analysis order, with that point's similarity and
\* text, whatever the similarities of the later points; the returned segments carry
\* the similarity and the point of the copy that was kept
C35_EarliestPointKept ==
    m_pc = "returned" =>
        LET points == ParsePoints(m_analysis)
            valid == ValidClips(m_clips)
            unique == UniqueOf(m_analysis, m_clips)
        IN  /\ \A a, b \in 1..Len(unique) : a # b => unique[a].index # unique[b].index
            /\ \A a \in 1..Len(unique) :
                  LET from == PointsSelecting(points, valid, unique[a].index)
                      first == CHOOSE i \in from : \A k \in from : i <= k
                  IN  /\ from # {}
                      /\ unique[a].point = points[first].text
                      /\ unique[a].similarity =
                            HxCosine(points[first].emb, unique[a].embedding)
            /\ \A n \in 1..Len(m_result.value) :
                  \E a \in 1..Len(unique) :
                     /\ unique[a].index = m_result.value[n].index
                     /\ unique[a].similarity = m_result.value[n].similarity
                     /\ unique[a].point = m_result.value[n].point

\* a returned segment was selected by two points, the later one matching it with
\* the higher similarity
C35_Witness ==
    /\ m_pc = "returned"
    /\ LET points == ParsePoints(m_analysis)
           valid == ValidClips(m_clips)
       IN  \E n \in 1..Len(m_result.value) :
              \E i, k \in PointsSelecting(points, valid, m_result.value[n].index) :
                 /\ i < k
                 /\ SimGT(HxCosine(points[k].emb, m_result.value[n].embedding),
                          HxCosine(points[i].emb, m_result.value[n].embedding))
                 /\ m_result.value[n].point = points[i].text

\* the ids of the objects the bucket holds under vectors/{d}/
PersistedIds(d) == {k[2] : k \in {o \in DOMAIN s3_objects : o[1] = d}}

\* C36 as stated: a search that has read shard d (its load, if it made one, having
\* brought something in) has had in the shard every record the bucket holds under
\* d, also the records persisted before the store was constructed when an insert
\* into d came before the first search of d
C36_SearchSeesPersisted ==
    (s_result.call /\ ~s_result.out.raised /\ s_result.searched # Absent) =>
        LET d == s_result.searched[1]
        IN  ~(s_result.hydrated /\ vectors_by_dimension[d] = <<>>) =>
               \A id \in PersistedIds(d) : DictHas(vectors_by_dimension[d], id)

\* record a was persisted before, b was inserted and persisted, and the search of
\* the shard that followed loaded nothing and had b only
C36_InsertHidesPersisted ==
    /\ s_result.call
    /\ s_result.searched = Some(256)
    /\ ~s_result.hydrated
    /\ v_pc = "idle"
    /\ PersistedIds(256) = {"a", "b"}
    /\ ~DictHas(vectors_by_dimension[256], "a")
    /\ DictHas(vectors_by_dimension[256], "b")

\* C39: with two upload requests in flight, same file name or not, what a request
\* sends to S3 and what it embeds is the content it received, and the file it saved
\* is still its own when it comes to read it
C39_RequestsKeepTheirFiles ==
    \A r \in UploadRequests :
        /\ u_sent[r] \in {NoContent, OwnContent(r)}
        /\ u_embedded[r] \in {NoContent, OwnContent(r)}
        /\ u_pc[r] = "s3" => local_files[LocalPath(r)] = OwnContent(r)

\* two requests for the same file name: u2 stores the embedding of u1's upload
C39_EmbedsTheOthersFile ==
    ~ (/\ u_req["u1"].filename = u_req["u2"].filename
       /\ u_pc["u2"] = "done"
       /\ u_embedded["u2"] = OwnContent("u1"))

\* requests with different file names keep their files apart
C39_DistinctNamesAreSafe ==
    u_req["u1"].filename # u_req["u2"].filename =>
        \A r \in UploadRequests :
            /\ u_sent[r] \in {NoContent, OwnContent(r)}
            /\ u_embedded[r] \in {NoContent, OwnContent(r)}

\* C40: the JSONL result file is read at most 3 times, sleeping 2 then 4 between
\* the attempts, and a call that returns after a failed attempt returns exactly the
\* embeddings of the lines of the file it read last, in file order
C40_RetryReturnsOneEmbeddingPerLine ==
    /\ j_attempt < max_retries
    /\ j_slept \in {<<>>, <<2>>, <<2, 4>>}
    /\ j_pc = "returned" => j_embeddings = AppendSegments(<<>>, j_body)

\* the attempts and their delays alone: at most 3 reads, sleeping 2 then 4
C40_ThreeReadsDoublingDelay ==
    /\ j_attempt < max_retries
    /\ Len(j_slept) = j_attempt
    /\ j_slept \in {<<>>, <<2>>, <<2, 4>>}
    /\ j_pc = "raised" => j_attempt = max_retries - 1

\* a call that returns after an attempt which failed while parsing
C40_LeftoversReturned ==
    ~ (/\ j_pc = "returned"
       /\ j_attempt > 0
       /\ Len(j_embeddings) > Len(j_body))

\* a call whose failed attempts all failed before parsing returns the file's segments
C40_CleanRetryReached ==
    ~ (/\ j_pc = "returned"
       /\ j_attempt > 0
       /\ j_embeddings = AppendSegments(<<>>, j_body)
       /\ j_embeddings # <<>>)

Terminal == {"completed", "failed"}
HighlightEnded(j) == j \in DOMAIN highlight_jobs /\ Job(j).status \in Terminal
UploadEnded(f) == f \in DOMAIN async_jobs /\ async_jobs[f].status \in Terminal

\* the job record r is terminal and stays as it is in r2: the status is kept, and
\* an error text once recorded is kept
Absorbed(r, r2) ==
    r.status \in Terminal =>
        /\ r2.status = r.status
        /\ r.error # Absent => r2.error = r.error

\* C37 as stated: once a highlight job or an upload job is completed or failed, no
\* step of its thread or of a status request changes its status or the error text
\* it carries
C37_TerminalIsAbsorbing ==
    [][/\ \A j \in JobIds :
             j \in DOMAIN highlight_jobs => Absorbed(Job(j), highlight_jobs'[j])
       /\ \A f \in FileIds :
             f \in DOMAIN async_jobs => Absorbed(async_jobs[f], async_jobs'[f])]_vars

\* the status request recorded the failure message, and the watcher then replaced
\* it by its own text
C37_ErrorRewritten ==
    \E f \in FileIds :
       /\ a_pc[f] = "done"
       /\ async_jobs[f].status = "failed"
       /\ q_resp[f].status = "failed"
       /\ q_resp[f].error # Absent
       /\ q_resp[f].error # async_jobs[f].error

\* C38: an upload job is completed only if add_vector was called for it and put
\* the vector, the mean of the valid segments, in the index under the job's id;
\* the segment count the job records is the number of segments averaged, and is
\* recorded once the watcher has returned; a job whose add_vector call failed is
\* never completed
C38_CompletedMeansStored ==
    \A f \in FileIds :
        f \in DOMAIN async_jobs =>
            /\ async_jobs[f].status = "completed" =>
                  /\ a_hist[f].add_called
                  /\ f \in DOMAIN s3_vectors
                  /\ a_hist[f].retrieved # Absent
                  /\ LET valid == ValidEmbeddings(a_hist[f].retrieved[1].embeddings)
                     IN  /\ valid # <<>>
                         /\ s3_vectors[f] = Mean(valid).value
                         /\ async_jobs[f].segments # Absent =>
                               async_jobs[f].segments = Some(Len(valid))
                         /\ a_pc[f] = "done" => async_jobs[f].segments # Absent
            /\ (a_hist[f].add_called /\ f \notin DOMAIN s3_vectors) =>
                  /\ async_jobs[f].status # "completed"
                  /\ a_pc[f] = "done" => async_jobs[f].status = "failed"

\* an upload completed after segments without a usable vector were left out of
\* the mean
C38_Witness ==
    \E f \in FileIds :
        /\ a_pc[f] = "done"
        /\ async_jobs[f].status = "completed"
        /\ f \in DOMAIN s3_vectors
        /\ async_jobs[f].segments # Absent
        /\ async_jobs[f].segments[1] < Len(a_hist[f].retrieved[1].embeddings)

\* C23: under fair scheduling of the job's thread, every highlight job and every
\* upload submitted gets a terminal status, completed or failed, and keeps one,
\* whatever the status and download requests do or do not do
C23_EveryJobTerminates ==
    /\ \A j \in JobIds :
          (j \in DOMAIN highlight_jobs) ~> []HighlightEnded(j)
    /\ \A f \in FileIds :
          (f \in DOMAIN async_jobs) ~> []UploadEnded(f)

\* an upload nobody asked about ended by the timeout of its watcher
C23_Witness ==
    \E f \in FileIds :
        /\ a_pc[f] = "done"
        /\ a_elapsed[f] >= MaxWaitTime
        /\ q_resp[f] = NoResponse
        /\ q_pc[f] = "idle"
        /\ async_jobs[f].status = "failed"

\* the error kinds of the store, read off the messages add_vector raises
ErrorKind(error) ==
    CASE error[1] = "Vector is empty" -> "InvalidVector"
      [] error[1] = "Vector contains all zeros" -> "InvalidVector"
      [] error[1] = "Vector dimension too small: " -> "InvalidVector"
      [] error[1] = "Unsupported dimension: " -> "UnsupportedDimension"
      [] OTHER -> "PersistenceError"

\* the last add_vector call was made with vector v
LastAddOf(v) == v_hist.last # "none" /\ v_hist.arg = v

EmptyOrZero(v) ==
    \/ v.null
    \/ v.len = 0
    \/ v.len \in Dimensions /\ ~AnyNonZero(v)

\* C11: an add_vector call with an empty vector, or with an all-zero vector of a
\* supported dimension, raises an invalid-vector error, writes nothing to the
\* bucket and leaves the shards and the metadata as they were
C11_EmptyOrZeroRejected ==
    (v_hist.last # "none" /\ EmptyOrZero(v_hist.arg)) =>
        /\ v_hist.last = "rejected"
        /\ v_pc = "idle"
        /\ v_result.call
        /\ v_result.out.raised
        /\ ErrorKind(v_result.out.error) = "InvalidVector"
        /\ Memory = v_hist.pre
        /\ s3_objects = v_hist.pre_objects

\* an all-zero vector of dimension 3072 has just been rejected by a store that
\* holds records
C11_Witness ==
    /\ LastAddOf(V(3072, <<>>))
    /\ v_result.out.raised
    /\ vectors_by_dimension[256] # <<>>
    /\ s3_objects # <<>>

\* C12 as stated: an add_vector call with a non-zero vector of fewer than 100
\* components raises the invalid-vector (too small) error, not the
\* unsupported-dimension error
C12_TooSmallIsInvalidVector ==
    (/\ v_hist.last # "none"
     /\ ~v_hist.arg.null
     /\ v_hist.arg.len > 0
     /\ v_hist.arg.len < MinDimension
     /\ AnyNonZero(v_hist.arg)) =>
        /\ v_hist.last = "rejected"
        /\ v_result.out.raised
        /\ ErrorKind(v_result.out.error) = "InvalidVector"

\* C13: a search given a target dimension other than the query's length raises
\* the mismatch error without reading or hydrating a shard; a search given no
\* target dimension reads the shard of the query's length
C13_TargetDimensionChecked ==
    /\ (/\ s_result.call
        /\ s_result.target_dimension # Absent
        /\ s_result.target_dimension # Some(s_result.query_len)) =>
          /\ s_result.out.raised
          /\ s_result.out.error = MismatchText
          /\ s_result.searched = Absent
          /\ ~s_result.hydrated
    /\ (/\ s_result.call
        /\ s_result.target_dimension = Absent
        /\ s_result.query_len \in Dimensions) =>
          /\ ~s_result.out.raised
          /\ s_result.searched = Some(s_result.query_len)
    /\ (s_result.call /\ s_result.searched # Absent) =>
          s_result.searched = Some(s_result.query_len)

\* a mismatching search ran while the shard of its query was empty and the bucket
\* held records
C13_Witness ==
    /\ s_result.call
    /\ s_result.query_len = 256
    /\ s_result.target_dimension = Some(384)
    /\ s_result.out.raised
    /\ vectors_by_dimension[256] = <<>>
    /\ <<256, "a">> \in DOMAIN s3_objects

OffsetsOf(s) == {s[i].timestamp : i \in 1..Len(s)}

\* C8: whatever the analysis text and the candidates, the list match_clips returns
\* is in ascending order of start offset, holds no two segments whose offsets differ
\* by less than the overlap window (3), and is no longer than the candidate list.
C8_ResultSortedSpacedBounded ==
    m_pc = "returned" =>
        LET r == m_result.value
        IN  /\ \A i, j \in 1..Len(r) : i < j => r[i].timestamp <= r[j].timestamp
            /\ \A i, j \in 1..Len(r) :
                   i # j => Abs(r[i].timestamp - r[j].timestamp) >= OverlapWindow
            /\ Len(r) <= Len(m_clips)

\* a call returned two or more segments after the overlap loop discarded one
C8_Witness ==
    /\ m_pc = "returned"
    /\ Len(m_result.value) >= 2
    /\ Len(UniqueClips(SortByTimestamp(
              SelectedClips(ParsePoints(m_analysis), ValidClips(m_clips))), {}))
          > Len(m_result.value)

\* C9: candidates at offsets 0, 2, 5, 9 matched with similarities 0.9, 0.95, 0.3,
\* 0.4 and a window of 3: the returned selection has the offsets 2 and 9 only.
C9_ScenarioKeeps2And9 ==
    (m_pc = "returned" /\ m_analysis = ScenarioAnalysis /\ m_clips = ScenarioClips)
        => OffsetsOf(m_result.value) = {2, 9}

\* the scenario has run, with the stated similarities
C9_Witness ==
    /\ m_pc = "returned"
    /\ m_analysis = ScenarioAnalysis
    /\ m_clips = ScenarioClips
    /\ [i \in 1..4 |-> HxCosine(ScenarioPoint.emb, ScenarioClips[i].embedding)]
         = <<Sim(9, 100), Sim(19, 400), Sim(3, 100), Sim(2, 25)>>


====
